---- MODULE Spec2Model ----
(***************************************************************************)
(* State-machine model of the attachment pipeline and the tool handlers of *)
(* xero-mcp-server: fileToBase64 (file loader), processAttachments         *)
(* (attachment normalizer), the per-attachment upload loop and the tool    *)
(* handlers that chain them after the entity handler call.                 *)
(*                                                                         *)
(* Conventions.  A JavaScript string is a TLA+ string; an absent optional  *)
(* string is Undefined; "" is the empty string (both are falsy).  Base64   *)
(* text is a sequence of sextets 0..63 with Pad for '='; an absent base64  *)
(* field is NoContent.  A message is a sequence of text fragments, in      *)
(* order (the template literal's parts).                                   *)
(***************************************************************************)
EXTENDS Integers, Sequences, FiniteSets, TLC

\* ------------------------------------------------------------------ bounds

\* Longest attachment list of one tool invocation.
MaxAttachments == 3

\* Longest attachment list handed to processAttachments on its own.
MaxBatch == 2

\* Longest content, in bytes, of a file whose bytes are enumerated.
MaxFileBytes == 2

\* The longest attachment list of a call that is followed through its schema.
MaxRequest == 1

\* The longest attachment list of each of two concurrent invocations.
MaxConcurrentBatch == 2

\* ------------------------------------------------------- program constants

MAX_FILE_SIZE == 10 * 1024 * 1024

MiB == 1024 * 1024

\* ------------------------------------------------------------ JS values

Undefined == "<undefined>"

Pad == 64

NoContent == << -1 >>

\* JavaScript truthiness of an optional string field.
Truthy(s) == s # Undefined /\ s # ""

\* JavaScript truthiness of an optional base64 field.
TruthyContent(c) == c # NoContent /\ c # << >>

\* error.message.includes(needle) for the fragments that occur in the model.
FragmentIncludes(fragment, needle) ==
    \/ needle = "too large" /\ fragment \in {"File too large: ", "/too large/notes"}
    \/ needle = "not a file" /\ fragment = "Path is not a file: "
    \/ needle = "File not found" /\ fragment = "File not found: "

Includes(message, needle) ==
    \E k \in DOMAIN message : FragmentIncludes(message[k], needle)

\* ------------------------------------------------------------- base64

Byte == {0, 77, 255}

RECURSIVE Base64Encode(_)
\* buffer.toString('base64')
Base64Encode(bytes) ==
    IF Len(bytes) = 0 THEN << >>
    ELSE IF Len(bytes) = 1 THEN
        << bytes[1] \div 4, (bytes[1] % 4) * 16, Pad, Pad >>
    ELSE IF Len(bytes) = 2 THEN
        << bytes[1] \div 4,
           (bytes[1] % 4) * 16 + bytes[2] \div 16,
           (bytes[2] % 16) * 4,
           Pad >>
    ELSE
        << bytes[1] \div 4,
           (bytes[1] % 4) * 16 + bytes[2] \div 16,
           (bytes[2] % 16) * 4 + bytes[3] \div 64,
           bytes[3] % 64 >>
        \o Base64Encode(SubSeq(bytes, 4, Len(bytes)))

RECURSIVE Base64DecodeWholeGroups(_)
\* Faulty variant: a trailing group with padding is dropped.
Base64DecodeWholeGroups(text) ==
    IF Len(text) < 4 \/ text[3] = Pad \/ text[4] = Pad THEN << >>
    ELSE
        << text[1] * 4 + text[2] \div 16,
           (text[2] % 16) * 16 + text[3] \div 4,
           (text[3] % 4) * 64 + text[4] >>
        \o Base64DecodeWholeGroups(SubSeq(text, 5, Len(text)))

RECURSIVE Base64Decode(_)
\* Buffer.from(text, 'base64'): decoding stops at the first '='; a trailing
\* group of 2 or 3 sextets yields 1 or 2 bytes, a single sextet none.
Base64Decode(text) ==
    IF Len(text) < 2 \/ text[1] = Pad \/ text[2] = Pad THEN << >>
    ELSE IF Len(text) = 2 \/ text[3] = Pad THEN
        << text[1] * 4 + text[2] \div 16 >>
    ELSE IF Len(text) = 3 \/ text[4] = Pad THEN
        << text[1] * 4 + text[2] \div 16,
           (text[2] % 16) * 16 + text[3] \div 4 >>
    ELSE
        << text[1] * 4 + text[2] \div 16,
           (text[2] % 16) * 16 + text[3] \div 4,
           (text[3] % 4) * 64 + text[4] >>
        \o Base64Decode(SubSeq(text, 5, Len(text)))

\* ------------------------------------------------------------ paths, MIME

\* The file paths a caller names: absolute, relative, and one whose text
\* holds the words "too large".
Paths == {"/docs/r.pdf", "scan.PNG", "/too large/notes"}

\* path.resolve(filePath) with the process started in /work.
Resolve(filePath) ==
    CASE filePath = "scan.PNG" -> "/work/scan.PNG"
      [] filePath = "" -> "/work"
      [] OTHER -> filePath

\* path.basename(resolvedPath)
Basename(resolvedPath) ==
    CASE resolvedPath = "/docs/r.pdf" -> "r.pdf"
      [] resolvedPath = "/work/scan.PNG" -> "scan.PNG"
      [] resolvedPath = "/too large/notes" -> "notes"
      [] resolvedPath = "/work" -> "work"
      [] OTHER -> resolvedPath

\* The lower-cased extension of a file name ("" when it has none).
Extension(fileName) ==
    CASE fileName \in {"r.pdf", "a.pdf"} -> "pdf"
      [] fileName \in {"scan.PNG", "b.png"} -> "png"
      [] OTHER -> ""

\* detectMimeType: extension table, case-insensitive, with the binary default.
detectMimeType(fileName) ==
    CASE Extension(fileName) = "pdf" -> "application/pdf"
      [] Extension(fileName) = "png" -> "image/png"
      [] OTHER -> "application/octet-stream"

\* ------------------------------------------------------------ file system

\* What a resolved path names.  A "file" carries its size, the bytes the model
\* enumerates (all of them when size = Len(data)) and the outcome of reading it.
NoFile == [kind |-> "missing", size |-> 0, data |-> << >>, readCode |-> "OK"]

\* fs.stat(resolvedPath): an error code, or the stats of the entry.
Stat(file) ==
    CASE file.kind = "missing" -> [code |-> "ENOENT", isFile |-> FALSE, size |-> 0]
      [] file.kind = "denied" -> [code |-> "EACCES", isFile |-> FALSE, size |-> 0]
      [] file.kind = "ioerr" -> [code |-> "EIO", isFile |-> FALSE, size |-> 0]
      [] file.kind = "dir" -> [code |-> "OK", isFile |-> FALSE, size |-> file.size]
      [] OTHER -> [code |-> "OK", isFile |-> TRUE, size |-> file.size]

\* fs.readFile(resolvedPath): an error code, or the bytes of the file.
ReadFile(file) ==
    CASE file.kind = "missing" -> [code |-> "ENOENT", bytes |-> << >>]
      [] file.kind = "denied" -> [code |-> "EACCES", bytes |-> << >>]
      [] file.kind = "ioerr" -> [code |-> "EIO", bytes |-> << >>]
      [] file.kind = "dir" -> [code |-> "EISDIR", bytes |-> << >>]
      [] OTHER -> [code |-> file.readCode,
                   bytes |-> IF file.readCode = "OK" THEN file.data ELSE << >>]

\* The error a failed fs call throws: a NodeJS.ErrnoException.
OsError(code, syscall, resolvedPath) ==
    [code |-> code, message |-> << code, ": ", syscall, " '", resolvedPath, "'" >>]

\* new Error(message): no code.
PlainError(message) == [code |-> "", message |-> message]

\* Math.round(size / 1024 / 1024)
RoundMB(size) == (2 * size + MiB) \div (2 * MiB)

\* Faulty variant: the size is not checked before the read.
LoadTryWithoutCeiling(filePath, statFile, readFile) ==
    LET resolvedPath == Resolve(filePath)
        stats == Stat(statFile)
        buffer == ReadFile(readFile)
        fileName == Basename(resolvedPath)
        none == [base64Content |-> << >>, mimeType |-> "", fileName |-> ""]
    IN  IF stats.code # "OK" THEN
            [ok |-> FALSE, thrown |-> OsError(stats.code, "stat", resolvedPath),
             value |-> none, readCalled |-> FALSE]
        ELSE IF ~stats.isFile THEN
            [ok |-> FALSE, thrown |-> PlainError(<< "Path is not a file: ", filePath >>),
             value |-> none, readCalled |-> FALSE]
        ELSE IF buffer.code # "OK" THEN
            [ok |-> FALSE, thrown |-> OsError(buffer.code, "open", resolvedPath),
             value |-> none, readCalled |-> TRUE]
        ELSE
            [ok |-> TRUE, thrown |-> PlainError(<< >>),
             value |-> [base64Content |-> Base64Encode(buffer.bytes),
                        mimeType |-> detectMimeType(fileName),
                        fileName |-> fileName],
             readCalled |-> TRUE]

\* The try block of fileToBase64, with the file as stat sees it and the file
\* as readFile sees it: the error thrown inside it, or the result.
LoadTry(filePath, statFile, readFile) ==
    LET resolvedPath == Resolve(filePath)
        stats == Stat(statFile)
        buffer == ReadFile(readFile)
        fileName == Basename(resolvedPath)
        none == [base64Content |-> << >>, mimeType |-> "", fileName |-> ""]
    IN  IF stats.code # "OK" THEN
            [ok |-> FALSE, thrown |-> OsError(stats.code, "stat", resolvedPath),
             value |-> none, readCalled |-> FALSE]
        ELSE IF ~stats.isFile THEN
            [ok |-> FALSE, thrown |-> PlainError(<< "Path is not a file: ", filePath >>),
             value |-> none, readCalled |-> FALSE]
        ELSE IF stats.size > MAX_FILE_SIZE THEN
            [ok |-> FALSE,
             thrown |-> PlainError(<< "File too large: ", ToString(RoundMB(stats.size)),
                                      "MB (max: 10MB)" >>),
             value |-> none, readCalled |-> FALSE]
        ELSE IF buffer.code # "OK" THEN
            [ok |-> FALSE, thrown |-> OsError(buffer.code, "open", resolvedPath),
             value |-> none, readCalled |-> TRUE]
        ELSE
            [ok |-> TRUE, thrown |-> PlainError(<< >>),
             value |-> [base64Content |-> Base64Encode(buffer.bytes),
                        mimeType |-> detectMimeType(fileName),
                        fileName |-> fileName],
             readCalled |-> TRUE]

\* The catch block of fileToBase64: the message of the error it throws for an
\* error caught from the try block (every caught value is an Error).
LoadCatch(filePath, error) ==
    IF error.code = "ENOENT" THEN << "File not found: ", filePath >>
    ELSE IF error.code = "EACCES" THEN << "Permission denied: ", filePath >>
    ELSE IF Includes(error.message, "too large") \/ Includes(error.message, "not a file")
        THEN error.message
    ELSE << "Unable to read file: ", filePath, " - " >> \o error.message

\* fileToBase64 when the file may change between stat and readFile.
fileToBase64On(filePath, statFile, readFile) ==
    LET t == LoadTry(filePath, statFile, readFile)
    IN  [ok |-> t.ok,
         value |-> t.value,
         error |-> IF t.ok THEN << >> ELSE LoadCatch(filePath, t.thrown),
         readCalled |-> t.readCalled]

\* fileToBase64(filePath) on the file system fs (resolved path -> entry).
fileToBase64(filePath, fs) ==
    fileToBase64On(filePath, fs[Resolve(filePath)], fs[Resolve(filePath)])

\* ------------------------------------------------------ attachment schema

\* Faulty variant: the refinement on fileName is missing.
attachmentSchemaWithoutNameRule(data) ==
    Truthy(data.filePath) \/ TruthyContent(data.base64Content)

\* attachmentSchema: four optional strings and the two refinements.
attachmentSchema(data) ==
    /\ Truthy(data.filePath) \/ TruthyContent(data.base64Content)
    /\ ~(TruthyContent(data.base64Content) /\ ~Truthy(data.fileName))

\* The inline attachment schema of the tools that declare their own:
\* fileName and base64Content are required strings, and zod strips filePath.
inlineAttachmentSchema(data) ==
    /\ data.fileName # Undefined
    /\ data.base64Content # NoContent
    /\ data.filePath = Undefined

\* ------------------------------------------------------------- normalizer

\* The value of a failed iteration.
NoProcessed == [fileName |-> "", mimeType |-> "", base64Content |-> << >>]

\* The catch block of the loop body: the error it throws.
WrapError(message) == << "Failed to process attachment: " >> \o message

\* Faulty variant: the overrides of the input are ignored.
ProcessByPathIgnoringOverrides(attachment, fs) ==
    LET fileData == fileToBase64(attachment.filePath, fs)
    IN  IF fileData.ok THEN
            [ok |-> TRUE, error |-> << >>, loaded |-> TRUE, value |-> fileData.value]
        ELSE [ok |-> FALSE, error |-> WrapError(fileData.error), loaded |-> TRUE,
              value |-> NoProcessed]

\* Faulty variant: the fileName of a loaded file is not used as fallback.
ProcessByPathWithoutFallback(attachment, fs) ==
    LET fileData == fileToBase64(attachment.filePath, fs)
    IN  IF fileData.ok THEN
            [ok |-> TRUE, error |-> << >>, loaded |-> TRUE,
             value |-> [fileName |-> attachment.fileName,
                        mimeType |-> IF Truthy(attachment.mimeType)
                                     THEN attachment.mimeType
                                     ELSE fileData.value.mimeType,
                        base64Content |-> fileData.value.base64Content]]
        ELSE [ok |-> FALSE, error |-> WrapError(fileData.error), loaded |-> TRUE,
              value |-> NoProcessed]

\* The branch of the loop body for an input with a filePath: the file is
\* loaded, and the input's fileName and mimeType override the derived ones.
ProcessByPath(attachment, fs) ==
    LET fileData == fileToBase64(attachment.filePath, fs)
    IN  IF fileData.ok THEN
            [ok |-> TRUE, error |-> << >>, loaded |-> TRUE,
             value |-> [fileName |-> IF Truthy(attachment.fileName)
                                     THEN attachment.fileName
                                     ELSE fileData.value.fileName,
                        mimeType |-> IF Truthy(attachment.mimeType)
                                     THEN attachment.mimeType
                                     ELSE fileData.value.mimeType,
                        base64Content |-> fileData.value.base64Content]]
        ELSE [ok |-> FALSE, error |-> WrapError(fileData.error), loaded |-> TRUE,
              value |-> NoProcessed]

\* Faulty variant: the fileName of inline content is not checked.
ProcessByContentUnchecked(attachment) ==
    [ok |-> TRUE, error |-> << >>, loaded |-> FALSE,
     value |-> [fileName |-> attachment.fileName,
                mimeType |-> IF Truthy(attachment.mimeType)
                             THEN attachment.mimeType
                             ELSE detectMimeType(attachment.fileName),
                base64Content |-> attachment.base64Content]]

\* Faulty variant: the mimeType of inline content is always detected.
ProcessByContentDetectingAlways(attachment) ==
    IF ~Truthy(attachment.fileName) THEN
        [ok |-> FALSE, loaded |-> FALSE, value |-> NoProcessed,
         error |-> WrapError(<< "fileName is required when using base64Content" >>)]
    ELSE
        [ok |-> TRUE, error |-> << >>, loaded |-> FALSE,
         value |-> [fileName |-> attachment.fileName,
                    mimeType |-> detectMimeType(attachment.fileName),
                    base64Content |-> attachment.base64Content]]

\* The branch of the loop body for an input with base64Content and no
\* filePath: fileName is required, the content is taken as it is.
ProcessByContent(attachment) ==
    IF ~Truthy(attachment.fileName) THEN
        [ok |-> FALSE, loaded |-> FALSE, value |-> NoProcessed,
         error |-> WrapError(<< "fileName is required when using base64Content" >>)]
    ELSE
        [ok |-> TRUE, error |-> << >>, loaded |-> FALSE,
         value |-> [fileName |-> attachment.fileName,
                    mimeType |-> IF Truthy(attachment.mimeType)
                                 THEN attachment.mimeType
                                 ELSE detectMimeType(attachment.fileName),
                    base64Content |-> attachment.base64Content]]

\* Faulty variant: base64Content is tested for presence, not for truthiness.
ProcessOneTakingEmptyContent(attachment, fs) ==
    IF Truthy(attachment.filePath) THEN ProcessByPath(attachment, fs)
    ELSE IF attachment.base64Content # NoContent THEN ProcessByContent(attachment)
    ELSE
        [ok |-> FALSE, loaded |-> FALSE, value |-> NoProcessed,
         error |-> WrapError(<< "Either filePath or base64Content must be provided" >>)]

\* Faulty variant: inline content is preferred to the file.
ProcessOnePreferringContent(attachment, fs) ==
    IF TruthyContent(attachment.base64Content) THEN ProcessByContent(attachment)
    ELSE IF Truthy(attachment.filePath) THEN ProcessByPath(attachment, fs)
    ELSE
        [ok |-> FALSE, loaded |-> FALSE, value |-> NoProcessed,
         error |-> WrapError(<< "Either filePath or base64Content must be provided" >>)]

\* One iteration of the loop of processAttachments: the ProcessedAttachment
\* pushed, or the error thrown by the loop body's catch block; loaded: the
\* iteration called fileToBase64.
ProcessOne(attachment, fs) ==
    IF Truthy(attachment.filePath) THEN ProcessByPath(attachment, fs)
    ELSE IF TruthyContent(attachment.base64Content) THEN ProcessByContent(attachment)
    ELSE
        [ok |-> FALSE, loaded |-> FALSE, value |-> NoProcessed,
         error |-> WrapError(<< "Either filePath or base64Content must be provided" >>)]

RECURSIVE ProcessLoopSkippingFailures(_, _, _, _, _)
\* Faulty variant: a failing item is skipped and the loop goes on.
ProcessLoopSkippingFailures(items, k, processedAttachments, loads, fs) ==
    IF k > Len(items) THEN
        [ok |-> TRUE, value |-> processedAttachments, error |-> << >>,
         loads |-> loads, failedAt |-> 0]
    ELSE
        LET one == ProcessOne(items[k], fs)
            loads2 == IF one.loaded THEN Append(loads, k) ELSE loads
        IN  ProcessLoopSkippingFailures(items, k + 1,
                IF one.ok THEN Append(processedAttachments, one.value)
                ELSE processedAttachments, loads2, fs)

RECURSIVE ProcessLoop(_, _, _, _, _)
\* The for loop of processAttachments from item k on: processedAttachments so
\* far, and the indices of the items whose file was loaded so far.
ProcessLoop(items, k, processedAttachments, loads, fs) ==
    IF k > Len(items) THEN
        [ok |-> TRUE, value |-> processedAttachments, error |-> << >>,
         loads |-> loads, failedAt |-> 0]
    ELSE
        LET one == ProcessOne(items[k], fs)
            loads2 == IF one.loaded THEN Append(loads, k) ELSE loads
        IN  IF one.ok
            THEN ProcessLoop(items, k + 1, Append(processedAttachments, one.value), loads2, fs)
            ELSE [ok |-> FALSE, value |-> << >>, error |-> one.error,
                  loads |-> loads2, failedAt |-> k]

\* Faulty variant: every file is loaded before the loop looks at an item.
processAttachmentsLoadingAhead(attachments, fs) ==
    IF ~attachments.present \/ Len(attachments.items) = 0 THEN
        [ok |-> TRUE, value |-> << >>, error |-> << >>, loads |-> << >>, failedAt |-> 0]
    ELSE [ProcessLoop(attachments.items, 1, << >>, << >>, fs) EXCEPT
             !.loads = SelectSeq([k \in DOMAIN attachments.items |-> k],
                                 LAMBDA k : Truthy(attachments.items[k].filePath))]

\* processAttachments(attachments): attachments is [present, items].
processAttachments(attachments, fs) ==
    IF ~attachments.present \/ Len(attachments.items) = 0 THEN
        [ok |-> TRUE, value |-> << >>, error |-> << >>, loads |-> << >>, failedAt |-> 0]
    ELSE ProcessLoop(attachments.items, 1, << >>, << >>, fs)

\* ------------------------------------------------------------------ tools

\* What the handlers of the tools differ in.  pipeline: "none" (no attachments
\* argument), "raw" (the attachments are uploaded as given) or "normalizer"
\* (through processAttachments).  schema: the attachment schema of the tool.
\* link: how the deep link is computed.  try: the handler body is wrapped in
\* try/catch.  filter: the lines are filtered with Boolean before the join.
ToolTable ==
    [name \in {"create-invoice", "update-invoice", "create-credit-note",
               "create-credit-note/inline", "update-credit-note",
               "create-bank-transaction", "update-bank-transaction",
               "create-manual-journal", "update-manual-journal",
               "create-account", "update-contact", "get-account"} |->
        CASE name = "create-invoice" ->
                [errorPrefix |-> "Error creating invoice: ", catchPrefix |-> "",
                 head |-> "Invoice created successfully:", try |-> FALSE,
                 pipeline |-> "raw", schema |-> "inline", link |-> "getDeepLink",
                 filter |-> TRUE]
          [] name = "update-invoice" ->
                [errorPrefix |-> "Error updating invoice: ", catchPrefix |-> "",
                 head |-> "Invoice updated successfully:", try |-> FALSE,
                 pipeline |-> "normalizer", schema |-> "attachmentSchema",
                 link |-> "getDeepLink", filter |-> FALSE]
          [] name = "create-credit-note" ->
                [errorPrefix |-> "Error creating credit note: ", catchPrefix |-> "",
                 head |-> "Credit note created successfully:", try |-> FALSE,
                 pipeline |-> "normalizer", schema |-> "attachmentSchema",
                 link |-> "getDeepLink", filter |-> TRUE]
          [] name = "create-credit-note/inline" ->
                [errorPrefix |-> "Error creating credit note: ", catchPrefix |-> "",
                 head |-> "Credit note created successfully:", try |-> FALSE,
                 pipeline |-> "raw", schema |-> "inline", link |-> "getDeepLink",
                 filter |-> TRUE]
          [] name = "update-credit-note" ->
                [errorPrefix |-> "Error updating credit note: ", catchPrefix |-> "",
                 head |-> "Credit note updated successfully:", try |-> FALSE,
                 pipeline |-> "raw", schema |-> "inline", link |-> "getDeepLink",
                 filter |-> FALSE]
          [] name = "create-bank-transaction" ->
                [errorPrefix |-> "Error creating bank transaction: ", catchPrefix |-> "",
                 head |-> "Bank transaction successfully:", try |-> FALSE,
                 pipeline |-> "normalizer", schema |-> "inline", link |-> "bank",
                 filter |-> TRUE]
          [] name = "update-bank-transaction" ->
                [errorPrefix |-> "Error updating bank transaction: ", catchPrefix |-> "",
                 head |-> "Bank transaction updated successfully:", try |-> FALSE,
                 pipeline |-> "normalizer", schema |-> "inline", link |-> "bank",
                 filter |-> TRUE]
          [] name = "create-manual-journal" ->
                [errorPrefix |-> "Error creating manual journal: ",
                 catchPrefix |-> "Error creating manual journal: ",
                 head |-> "Manual journal created: ", try |-> TRUE,
                 pipeline |-> "raw", schema |-> "inline", link |-> "getDeepLink",
                 filter |-> TRUE]
          [] name = "update-manual-journal" ->
                [errorPrefix |-> "Error updating manual journal: ",
                 catchPrefix |-> "Error updating manual journal: ",
                 head |-> "Manual journal updated: ", try |-> TRUE,
                 pipeline |-> "raw", schema |-> "inline", link |-> "getDeepLink",
                 filter |-> TRUE]
          [] name = "create-account" ->
                [errorPrefix |-> "Error creating account: ",
                 catchPrefix |-> "Error creating account: ",
                 head |-> "Account created: ", try |-> TRUE,
                 pipeline |-> "none", schema |-> "none", link |-> "none",
                 filter |-> TRUE]
          [] name = "update-contact" ->
                [errorPrefix |-> "Error updating contact: ",
                 catchPrefix |-> "Error creating contact: ",
                 head |-> "Contact updated: ", try |-> TRUE,
                 pipeline |-> "none", schema |-> "none", link |-> "getDeepLink",
                 filter |-> TRUE]
          [] OTHER ->
                [errorPrefix |-> "Error retrieving account: ", catchPrefix |-> "",
                 head |-> "Account ID: ", try |-> FALSE,
                 pipeline |-> "none", schema |-> "none", link |-> "none",
                 filter |-> TRUE]]

Tools == DOMAIN ToolTable

\* create-account words its texts by whether an accountId argument was given.
ErrorPrefix(name, a) ==
    IF name = "create-account" /\ Truthy(a.accountId)
    THEN "Error updating account: " ELSE ToolTable[name].errorPrefix

CatchPrefix(name, a) ==
    IF name = "create-account" /\ Truthy(a.accountId)
    THEN "Error updating account: " ELSE ToolTable[name].catchPrefix

SuccessHead(name, a) ==
    IF name = "create-account" /\ Truthy(a.accountId)
    THEN "Account updated: " ELSE ToolTable[name].head

\* Every first fragment of an error text of a tool.
ErrorPrefixes ==
    {ToolTable[n].errorPrefix : n \in Tools} \cup {ToolTable[n].catchPrefix : n \in Tools}
        \cup {"Error updating account: "}

\* -------------------------------------------------------- entity handlers

Null == "<null>"

\* The entity of an envelope: its identifier (Undefined when the remote gave
\* none), for a bank transaction its bankAccount ("absent", "noid": present
\* without accountID, "id": present with one), for an invoice its type.
NullEntity == [id |-> Undefined, bankAccount |-> "absent", type |-> Null]

ErrorEnvelope(error) == [result |-> NullEntity, isError |-> TRUE, error |-> error]

ResultEnvelope(entity) == [result |-> entity, isError |-> FALSE, error |-> Null]

\* What the remote answers to an account call: it throws, it returns a body
\* without accounts, or it returns an account.
RemoteAccountOutcomes(id) ==
    {[kind |-> "throws", account |-> NullEntity],
     [kind |-> "empty", account |-> NullEntity],
     [kind |-> "account", account |-> [id |-> id, bankAccount |-> "absent", type |-> "BANK"]],
     [kind |-> "account", account |-> [id |-> Undefined, bankAccount |-> "absent", type |-> "BANK"]]}

\* Faulty variant: an update is followed by a create.
createXeroAccountCallingBoth(accountId, auth, remote) ==
    LET calls == IF Truthy(accountId) THEN << "authenticate", "updateAccount", "createAccount" >>
                 ELSE << "authenticate", "createAccount" >>
    IN  IF auth = "throws" THEN
            [envelope |-> ErrorEnvelope("authenticate failed"),
             calls |-> << "authenticate" >>]
        ELSE IF remote.kind = "throws" THEN
            [envelope |-> ErrorEnvelope("remote call failed"), calls |-> calls]
        ELSE IF remote.kind = "empty" THEN
            [envelope |-> ErrorEnvelope("Account creation/update failed."), calls |-> calls]
        ELSE
            [envelope |-> ResultEnvelope(remote.account), calls |-> calls]

\* Faulty variant: a response without an account is returned as a result.
createXeroAccountUnchecked(accountId, auth, remote) ==
    LET call == IF Truthy(accountId) THEN "updateAccount" ELSE "createAccount"
    IN  IF auth = "throws" THEN
            [envelope |-> ErrorEnvelope("authenticate failed"),
             calls |-> << "authenticate" >>]
        ELSE IF remote.kind = "throws" THEN
            [envelope |-> ErrorEnvelope("remote call failed"),
             calls |-> << "authenticate", call >>]
        ELSE
            [envelope |-> ResultEnvelope(remote.account),
             calls |-> << "authenticate", call >>]

\* createXeroAccount: authenticate, then updateAccount when accountId is given
\* and createAccount otherwise; any throw and a missing account become the
\* error envelope.  calls: the calls made on the client, in order.
createXeroAccount(accountId, auth, remote) ==
    LET call == IF Truthy(accountId) THEN "updateAccount" ELSE "createAccount"
    IN  IF auth = "throws" THEN
            [envelope |-> ErrorEnvelope("authenticate failed"),
             calls |-> << "authenticate" >>]
        ELSE IF remote.kind = "throws" THEN
            [envelope |-> ErrorEnvelope("remote call failed"),
             calls |-> << "authenticate", call >>]
        ELSE IF remote.kind = "empty" THEN
            [envelope |-> ErrorEnvelope("Account creation/update failed."),
             calls |-> << "authenticate", call >>]
        ELSE
            [envelope |-> ResultEnvelope(remote.account),
             calls |-> << "authenticate", call >>]

\* Faulty variant: a response without an account is returned as a result.
getXeroAccountUnchecked(accountId, auth, remote) ==
    IF auth = "throws" THEN
        [envelope |-> ErrorEnvelope("authenticate failed"),
         calls |-> << "authenticate" >>]
    ELSE IF remote.kind = "throws" THEN
        [envelope |-> ErrorEnvelope("remote call failed"),
         calls |-> << "authenticate", "getAccount" >>]
    ELSE
        [envelope |-> ResultEnvelope(remote.account),
         calls |-> << "authenticate", "getAccount" >>]

\* getXeroAccount: authenticate, getAccount; any throw and a missing account
\* become the error envelope.
getXeroAccount(accountId, auth, remote) ==
    IF auth = "throws" THEN
        [envelope |-> ErrorEnvelope("authenticate failed"),
         calls |-> << "authenticate" >>]
    ELSE IF remote.kind = "throws" THEN
        [envelope |-> ErrorEnvelope("remote call failed"),
         calls |-> << "authenticate", "getAccount" >>]
    ELSE IF remote.kind = "empty" THEN
        [envelope |-> ErrorEnvelope("Account not found."),
         calls |-> << "authenticate", "getAccount" >>]
    ELSE
        [envelope |-> ResultEnvelope(remote.account),
         calls |-> << "authenticate", "getAccount" >>]

\* The envelopes of the entity handlers whose source is not at hand (invoice,
\* credit note, bank transaction, manual journal, contact): the error branch,
\* or the entity the remote returned, with or without an identifier.
ExternalEnvelopes(name, id) ==
    {ErrorEnvelope("remote call failed")} \cup
    {ResultEnvelope([id |-> eid, bankAccount |-> b, type |-> t]) :
        eid \in {id, Undefined},
        b \in IF ToolTable[name].link = "bank" THEN {"absent", "noid", "id"} ELSE {"absent"},
        t \in IF name = "create-invoice" THEN {"ACCREC", "ACCPAY"} ELSE {Null}}

\* Every envelope the entity handler of a tool can return for arguments a.
HandlerEnvelopes(name, a, id) ==
    IF name = "create-account" THEN
        {createXeroAccount(a.accountId, auth, remote).envelope :
            auth \in {"ok", "throws"}, remote \in RemoteAccountOutcomes(id)}
    ELSE IF name = "get-account" THEN
        {getXeroAccount(a.accountId, auth, remote).envelope :
            auth \in {"ok", "throws"}, remote \in RemoteAccountOutcomes(id)}
    ELSE ExternalEnvelopes(name, id)

\* ---------------------------------------------------------- response text

\* A null element of the array of lines.
NullLine == << Null >>

\* results.map(r => `${r.fileName} (${r.status})`).join(', ')
RECURSIVE ResultsText(_)
ResultsText(results) ==
    IF Len(results) = 0 THEN << >>
    ELSE << results[1].fileName, " (", results[1].status, ")" >>
         \o (IF Len(results) > 1 THEN << ", " >> ELSE << >>)
         \o ResultsText(Tail(results))

AttachmentsLine(results) ==
    IF Len(results) > 0 THEN << "Attachments: " >> \o ResultsText(results) ELSE NullLine

\* deepLink ? `Link to view: ${deepLink}` : null (a null link is << >>)
LinkLine(link) ==
    IF link # << >> THEN << "Link to view: " >> \o link ELSE NullLine

\* The lines of the success text between the head and the attachments line.
BodyLines(name, e) ==
    CASE name = "create-invoice" ->
            << << "ID: ", e.id >>, << "Contact: ", "Acme" >>, << "Type: ", e.type >>,
               << "Date: ", "2024-01-01" >>, << "Reference: ", "None" >>,
               << "Total: ", "100" >>, << "Status: ", "DRAFT" >> >>
      [] name = "update-invoice" ->
            << << "ID: ", e.id >>, << "Contact: ", "Acme" >>, << "Type: ", "ACCREC" >>,
               << "Reference: ", "None" >>, << "Total: ", "100" >>,
               << "Status: ", "DRAFT" >> >>
      [] name \in {"create-credit-note", "create-credit-note/inline", "update-credit-note"} ->
            << << "ID: ", e.id >>, << "Contact: ", "Acme" >>, << "Total: ", "100" >>,
               << "Status: ", "DRAFT" >> >>
      [] name \in {"create-bank-transaction", "update-bank-transaction"} ->
            << << "ID: ", e.id >>, << "Date: ", "2024-01-01" >>, << "Contact: ", "Acme" >>,
               << "Total: ", "100" >>, << "Status: ", "DRAFT" >> >>
      [] name = "create-manual-journal" ->
            << << "Date: ", "2024-01-01" >>, << "Status: ", "DRAFT" >>,
               << "[object Object]", ",", "[object Object]" >>,
               << "Show on Cash Basis Reports: ", "true" >> >>
      [] name = "create-account" ->
            << << "Code: ", "090" >>, << "Type: ", e.type >> >>
      [] name = "get-account" ->
            << << "Code: ", "090" >>, << "Name: ", "Till" >>, << "Type: ", e.type >>,
               << "Description: ", "None" >>, << "Tax Type: ", "None" >>,
               << "Bank Account Number: ", "None" >>, << "Bank Account Type: ", "None" >>,
               << "Enable Payments: ", "Not set" >>, << "Show in Expense Claims: ", "Not set" >>,
               << "Status: ", "ACTIVE" >> >>
      [] OTHER -> << >>

\* The first line of the success text.
HeadLine(name, a, e) ==
    CASE name \in {"create-manual-journal", "update-manual-journal"} ->
            << SuccessHead(name, a), "narration", " (ID: ", e.id, ")" >>
      [] name \in {"create-account", "update-contact"} ->
            << SuccessHead(name, a), "Till", " (ID: ", e.id, ")" >>
      [] name = "get-account" -> << SuccessHead(name, a), e.id >>
      [] OTHER -> << SuccessHead(name, a) >>

\* lines.filter(Boolean)
RECURSIVE FilterBoolean(_)
FilterBoolean(lines) ==
    IF Len(lines) = 0 THEN << >>
    ELSE (IF lines[1] = NullLine THEN << >> ELSE << lines[1] >>)
         \o FilterBoolean(Tail(lines))

\* lines.join("\n"), as the lines of the joined text: a null element joins as
\* the empty string, which leaves an empty line.
JoinLines(lines) ==
    [k \in DOMAIN lines |-> IF lines[k] = NullLine THEN << >> ELSE lines[k]]

\* The text of the success response of a tool.
SuccessText(name, a, e, results, link) ==
    LET tail == IF ToolTable[name].pipeline = "none"
                THEN << LinkLine(link) >>
                ELSE << AttachmentsLine(results), LinkLine(link) >>
        lines == << HeadLine(name, a, e) >> \o BodyLines(name, e) \o tail
    IN  JoinLines(IF ToolTable[name].filter THEN FilterBoolean(lines) ELSE lines)

\* The text of an error response: the prefix, then the error.
ErrorText(prefix, error) == << << prefix, error >> >>

\* ------------------------------------------------------------ the inputs

Invocations == {1, 2}

\* The identifier the remote gives the entity of invocation i.
EntityIdOf(i) == IF i = 1 THEN "E-1" ELSE "E-2"

\* "TQD/" and "AA==": the base64 text of the bytes 77 0 255 and of the byte 0.
ContentA == Base64Encode(<< 77, 0, 255 >>)

ContentB == Base64Encode(<< 0 >>)

\* The attachment arguments tried: by content (with and without a mimeType),
\* with an empty fileName, with empty content, by path (a readable file, a
\* missing file with a fileName override, a file over the size ceiling), and
\* with both sources.
AttachmentItems ==
    {[fileName |-> "a.pdf", mimeType |-> Undefined, filePath |-> Undefined,
      base64Content |-> ContentA],
     [fileName |-> "b.png", mimeType |-> "text/plain", filePath |-> Undefined,
      base64Content |-> ContentB],
     [fileName |-> "", mimeType |-> Undefined, filePath |-> Undefined,
      base64Content |-> ContentA],
     [fileName |-> "a.pdf", mimeType |-> Undefined, filePath |-> Undefined,
      base64Content |-> << >>],
     [fileName |-> Undefined, mimeType |-> Undefined, filePath |-> "/docs/r.pdf",
      base64Content |-> NoContent],
     [fileName |-> "b.png", mimeType |-> Undefined, filePath |-> "scan.PNG",
      base64Content |-> NoContent],
     [fileName |-> Undefined, mimeType |-> Undefined, filePath |-> "/too large/notes",
      base64Content |-> NoContent],
     [fileName |-> "a.pdf", mimeType |-> Undefined, filePath |-> "/docs/r.pdf",
      base64Content |-> ContentB]}

\* The attachment arguments that pass the attachment schema of a tool.
ValidItems(name) ==
    {x \in AttachmentItems :
        IF ToolTable[name].schema = "attachmentSchema" THEN attachmentSchema(x)
        ELSE inlineAttachmentSchema(x)}

SeqsUpTo(S, n) == UNION {[1..m -> S] : m \in 0..n}

NoAttachments == [present |-> FALSE, items |-> << >>]

\* The validated arguments a tool handler can be invoked with.
ArgsOf(name) ==
    {[attachments |-> at, accountId |-> acc] :
        at \in IF ToolTable[name].pipeline = "none" THEN {NoAttachments}
               ELSE {NoAttachments} \cup
                    {[present |-> TRUE, items |-> s] :
                        s \in SeqsUpTo(ValidItems(name), MaxAttachments)},
        acc \in CASE name = "create-account" -> {Undefined, "E-9"}
                  [] name = "get-account" -> {"E-9"}
                  [] OTHER -> {Undefined}}

\* The manualJournalLines argument of the manual journal tools: a debit and
\* the credit that balances it.
ManualJournalLines ==
    << [lineAmount |-> 100, accountCode |-> "200"],
       [lineAmount |-> 0 - 100, accountCode |-> "400"] >>

\* The file system of the tool invocations: a readable two-byte file, a file
\* of one byte over the ceiling, and nothing at /work/scan.PNG.
ToolFs ==
    [p \in {Resolve(q) : q \in Paths} |->
        CASE p = "/docs/r.pdf" ->
                [kind |-> "file", size |-> 2, data |-> << 77, 255 >>, readCode |-> "OK"]
          [] p = "/too large/notes" ->
                [kind |-> "file", size |-> MAX_FILE_SIZE + 1, data |-> << 0 >>,
                 readCode |-> "OK"]
          [] OTHER -> NoFile]

\* ------------------------------------------------------------------ state

VARIABLES
    pc,                 \* where each invocation is: off, request, rejected,
                        \* start, link, attach, upload, uploading, respond, returned,
                        \* threw
                        \* (entity handler: entered, authenticated, settled)
    tool,               \* the tool each invocation runs
    args,               \* its validated arguments
    envelope,           \* what the entity handler returned
    deepLink,           \* the deep link computed (NoLink: null)
    processed,          \* the attachments the upload loop iterates
    attachmentResults,  \* the attachmentResults array
    response,           \* the value returned to the host
    log,                \* the calls each invocation has made, in order
    uploads,            \* the upload calls the remote has received, in order
    fs,                 \* the file system
    loadIn, loadOut,    \* fileToBase64 on its own: argument and outcome
    normIn, normOut,    \* processAttachments on its own: argument and outcome
    request             \* the attachments each call carries, before the schema

vars == << pc, tool, args, envelope, deepLink, processed, attachmentResults,
           response, log, uploads, fs, loadIn, loadOut, normIn, normOut, request >>

pureVars == << loadIn, loadOut, normIn, normOut, request >>

NoLink == << >>

NoResponse == [kind |-> "none", text |-> << >>]

TextResponse(text) == [kind |-> "text", text |-> text]

IdleLoad == [filePath |-> "", file |-> NoFile]

IdleOut == [done |-> FALSE]

\* The state in which the invocations in active are about to run tool t[i]
\* with arguments a[i]; the others never run.
InitInvocations(active, t, a) ==
    /\ pc = [i \in Invocations |-> IF i \in active THEN "start" ELSE "off"]
    /\ tool = t
    /\ args = a
    /\ envelope = [i \in Invocations |-> ResultEnvelope(NullEntity)]
    /\ deepLink = [i \in Invocations |-> NoLink]
    /\ processed = [i \in Invocations |-> << >>]
    /\ attachmentResults = [i \in Invocations |-> << >>]
    /\ response = [i \in Invocations |-> NoResponse]
    /\ log = [i \in Invocations |-> << >>]
    /\ uploads = << >>
    /\ fs = ToolFs
    /\ request = [i \in Invocations |-> a[i].attachments]

IdleTool == "get-account"

IdleArgs == [attachments |-> NoAttachments, accountId |-> "E-9"]

\* One invocation of any tool with any validated arguments.
Init ==
    /\ \E n \in Tools : \E a \in ArgsOf(n) :
          InitInvocations({1}, [i \in Invocations |-> IF i = 1 THEN n ELSE IdleTool],
                               [i \in Invocations |-> IF i = 1 THEN a ELSE IdleArgs])
    /\ loadIn = IdleLoad /\ loadOut = IdleOut
    /\ normIn = NoAttachments /\ normOut = IdleOut

\* ------------------------------------------------------- the tool handler

\* The handler's catch block, or none: an exception thrown in the handler body
\* becomes the catch block's text, or escapes to the host.
Throw(i, message) ==
    IF ToolTable[tool[i]].try
    THEN /\ pc' = [pc EXCEPT ![i] = "returned"]
         /\ response' = [response EXCEPT ![i] =
                TextResponse(ErrorText(CatchPrefix(tool[i], args[i]), message))]
    ELSE /\ pc' = [pc EXCEPT ![i] = "threw"]
         /\ UNCHANGED response

\* Faulty variant: the error envelope is not checked.
HandlerReturnsUnchecked(i) ==
    /\ pc[i] = "start"
    /\ \E env \in HandlerEnvelopes(tool[i], args[i], EntityIdOf(i)) :
          /\ envelope' = [envelope EXCEPT ![i] = env]
          /\ log' = [log EXCEPT ![i] = Append(@, "handler")]
          /\ pc' = [pc EXCEPT ![i] = "link"]
    /\ UNCHANGED << tool, args, deepLink, processed, attachmentResults, response,
                    uploads, fs, pureVars >>

\* await <entity handler>(...) returns; on the error envelope the handler
\* returns the error text.
HandlerReturns(i) ==
    /\ pc[i] = "start"
    /\ \E env \in HandlerEnvelopes(tool[i], args[i], EntityIdOf(i)) :
          /\ envelope' = [envelope EXCEPT ![i] = env]
          /\ log' = [log EXCEPT ![i] = Append(@, "handler")]
          /\ IF env.isError THEN
                /\ response' = [response EXCEPT ![i] =
                      TextResponse(ErrorText(ErrorPrefix(tool[i], args[i]), env.error))]
                /\ pc' = [pc EXCEPT ![i] = "returned"]
             ELSE IF tool[i] = "get-account" /\ env.result = NullEntity THEN
                /\ response' = [response EXCEPT ![i] =
                      TextResponse(<< << "No account found with ID: ", args[i].accountId >> >>)]
                /\ pc' = [pc EXCEPT ![i] = "returned"]
             ELSE
                /\ pc' = [pc EXCEPT ![i] = "link"]
                /\ UNCHANGED response
    /\ UNCHANGED << tool, args, deepLink, processed, attachmentResults, uploads, fs, pureVars >>

\* The type of deep link a tool asks for.
DeepLinkType(name, e) ==
    CASE name = "create-invoice" -> IF e.type = "ACCREC" THEN "INVOICE" ELSE "BILL"
      [] name = "update-invoice" -> "INVOICE"
      [] name \in {"create-credit-note", "create-credit-note/inline", "update-credit-note"} ->
            "CREDIT_NOTE"
      [] name \in {"create-manual-journal", "update-manual-journal"} -> "MANUAL_JOURNAL"
      [] name \in {"create-bank-transaction", "update-bank-transaction"} -> "BANK"
      [] OTHER -> "CONTACT"

\* The deep link of an entity: a URL text naming the type and the identifier.
DeepLinkUrl(type, id) == << "https://go.xero.com/", type, "/", id >>

\* Faulty variant: the deep link is asked for whatever the identifier is.
ComputeDeepLinkUnguarded(i) ==
    LET e == envelope[i].result
    IN  /\ pc[i] = "link"
        /\ UNCHANGED << tool, args, envelope, processed, attachmentResults, uploads, fs,
                        pureVars >>
        /\ log' = [log EXCEPT ![i] = Append(@, "deepLink")]
        /\ deepLink' = [deepLink EXCEPT ![i] = DeepLinkUrl(DeepLinkType(tool[i], e), e.id)]
        /\ pc' = [pc EXCEPT ![i] = "attach"]
        /\ UNCHANGED response

\* const deepLink = ...: getDeepLink is awaited when the entity has an
\* identifier and may reject; the bank transaction tools read
\* bankTransaction.bankAccount.accountID, which throws a TypeError when the
\* entity has no bankAccount; the account tools set null.
ComputeDeepLink(i) ==
    LET e == envelope[i].result
        kind == ToolTable[tool[i]].link
    IN  /\ pc[i] = "link"
        /\ UNCHANGED << tool, args, envelope, processed, attachmentResults, uploads, fs,
                        pureVars >>
        /\ CASE kind = "getDeepLink" /\ Truthy(e.id) ->
                  /\ log' = [log EXCEPT ![i] = Append(@, "deepLink")]
                  /\ \/ /\ deepLink' = [deepLink EXCEPT ![i] =
                              DeepLinkUrl(DeepLinkType(tool[i], e), e.id)]
                        /\ pc' = [pc EXCEPT ![i] = "attach"]
                        /\ UNCHANGED response
                     \/ /\ Throw(i, "deep link failed")
                        /\ UNCHANGED deepLink
             [] kind = "bank" /\ e.bankAccount = "absent" ->
                  /\ Throw(i, "Cannot read properties of undefined")
                  /\ UNCHANGED << deepLink, log >>
             [] kind = "bank" /\ e.bankAccount = "id" /\ Truthy(e.id) ->
                  /\ log' = [log EXCEPT ![i] = Append(@, "deepLink")]
                  /\ deepLink' = [deepLink EXCEPT ![i] =
                        DeepLinkUrl(DeepLinkType(tool[i], e), e.id)]
                  /\ pc' = [pc EXCEPT ![i] = "attach"]
                  /\ UNCHANGED response
             [] OTHER ->
                  /\ deepLink' = [deepLink EXCEPT ![i] = NoLink]
                  /\ pc' = [pc EXCEPT ![i] = "attach"]
                  /\ UNCHANGED << response, log >>

\* The synthetic entry recorded when processAttachments throws.
ProcessingFailed(message) ==
    [fileName |-> "unknown", status |-> "failed",
     error |-> << "Processing failed: " >> \o message]

\* The attachments a raw upload loop iterates: the arguments as given.
RawAttachments(items) ==
    [k \in DOMAIN items |->
        [fileName |-> items[k].fileName, mimeType |-> items[k].mimeType,
         base64Content |-> items[k].base64Content]]

\* Faulty variant: the identifier of the entity is not checked.
AttachmentGuardWithoutId(i) ==
    /\ ToolTable[tool[i]].pipeline # "none"
    /\ args[i].attachments.present
    /\ Len(args[i].attachments.items) > 0

\* if (attachments && attachments.length > 0 && <entity id>)
AttachmentGuard(i) ==
    /\ ToolTable[tool[i]].pipeline # "none"
    /\ args[i].attachments.present
    /\ Len(args[i].attachments.items) > 0
    /\ Truthy(envelope[i].result.id)

\* const attachmentResults = []; the guard; in the tools that normalize, the
\* call of processAttachments and the catch of its failure.
StartAttachments(i) ==
    /\ pc[i] = "attach"
    /\ UNCHANGED << tool, args, envelope, deepLink, response, uploads, fs, pureVars >>
    /\ IF ~AttachmentGuard(i) THEN
          /\ pc' = [pc EXCEPT ![i] = "respond"]
          /\ UNCHANGED << processed, attachmentResults, log >>
       ELSE IF ToolTable[tool[i]].pipeline = "raw" THEN
          /\ processed' = [processed EXCEPT ![i] = RawAttachments(args[i].attachments.items)]
          /\ pc' = [pc EXCEPT ![i] = "upload"]
          /\ UNCHANGED << attachmentResults, log >>
       ELSE
          LET r == processAttachments(args[i].attachments, fs)
          IN  /\ log' = [log EXCEPT ![i] = Append(@, "processAttachments")]
              /\ IF r.ok THEN
                    /\ processed' = [processed EXCEPT ![i] = r.value]
                    /\ pc' = [pc EXCEPT ![i] =
                          IF Len(r.value) = 0 THEN "respond" ELSE "upload"]
                    /\ UNCHANGED attachmentResults
                 ELSE
                    /\ attachmentResults' = [attachmentResults EXCEPT ![i] =
                          << ProcessingFailed(r.error) >>]
                    /\ pc' = [pc EXCEPT ![i] = "respond"]
                    /\ UNCHANGED processed

\* Faulty variant: a throwing upload ends the loop.
UploadAttachmentStoppingOnThrow(i) ==
    LET k == Len(attachmentResults[i]) + 1
        attachment == processed[i][k]
    IN  /\ pc[i] = "upload"
        /\ \E threw \in BOOLEAN :
              /\ uploads' = Append(uploads,
                    [invocation |-> i, resourceId |-> envelope[i].result.id,
                     fileName |-> attachment.fileName,
                     bytes |-> Base64Decode(attachment.base64Content),
                     threw |-> threw])
              /\ attachmentResults' = [attachmentResults EXCEPT ![i] = Append(@,
                    IF threw
                    THEN [fileName |-> attachment.fileName, status |-> "failed",
                          error |-> << "upload failed" >>]
                    ELSE [fileName |-> attachment.fileName, status |-> "success",
                          error |-> << >>])]
              /\ pc' = [pc EXCEPT ![i] =
                    IF threw \/ k = Len(processed[i]) THEN "respond" ELSE "upload"]
        /\ log' = [log EXCEPT ![i] = Append(@, "upload")]
        /\ UNCHANGED << tool, args, envelope, deepLink, processed, response, fs, pureVars >>

\* One iteration of the upload loop: the upload call of the next attachment
\* returns or throws, and its result is pushed.
UploadAttachment(i) ==
    LET k == Len(attachmentResults[i]) + 1
        attachment == processed[i][k]
    IN  /\ pc[i] = "upload"
        /\ \E threw \in BOOLEAN :
              /\ uploads' = Append(uploads,
                    [invocation |-> i, resourceId |-> envelope[i].result.id,
                     fileName |-> attachment.fileName,
                     bytes |-> Base64Decode(attachment.base64Content),
                     threw |-> threw])
              /\ attachmentResults' = [attachmentResults EXCEPT ![i] = Append(@,
                    IF threw
                    THEN [fileName |-> attachment.fileName, status |-> "failed",
                          error |-> << "upload failed" >>]
                    ELSE [fileName |-> attachment.fileName, status |-> "success",
                          error |-> << >>])]
        /\ log' = [log EXCEPT ![i] = Append(@, "upload")]
        /\ pc' = [pc EXCEPT ![i] = IF k = Len(processed[i]) THEN "respond" ELSE "upload"]
        /\ UNCHANGED << tool, args, envelope, deepLink, processed, response, fs, pureVars >>

\* return { content: [{ type: "text", text: [...].join("\n") }] }
Respond(i) ==
    /\ pc[i] = "respond"
    /\ response' = [response EXCEPT ![i] =
          TextResponse(SuccessText(tool[i], args[i], envelope[i].result,
                                   attachmentResults[i], deepLink[i]))]
    /\ pc' = [pc EXCEPT ![i] = "returned"]
    /\ UNCHANGED << tool, args, envelope, deepLink, processed, attachmentResults,
                    log, uploads, fs, pureVars >>

Next ==
    \/ \E i \in Invocations : HandlerReturns(i)
    \/ \E i \in Invocations : ComputeDeepLink(i)
    \/ \E i \in Invocations : StartAttachments(i)
    \/ \E i \in Invocations : UploadAttachment(i)
    \/ \E i \in Invocations : Respond(i)

Spec == Init /\ [][Next]_vars

\* ------------------------------------------------- fileToBase64 on its own

\* What a path can name: nothing, an entry stat cannot reach, a directory, a
\* file with enumerated bytes, or a file at, just over or far over the ceiling;
\* reading a file succeeds or fails with EACCES or EIO.
FileStates ==
    {[kind |-> k, size |-> 0, data |-> << >>, readCode |-> "OK"] :
        k \in {"missing", "denied", "ioerr"}}
    \cup {[kind |-> "dir", size |-> n, data |-> << >>, readCode |-> "OK"] :
        n \in {4096, MAX_FILE_SIZE + 1}}
    \cup {[kind |-> "file", size |-> Len(d), data |-> d, readCode |-> c] :
        d \in SeqsUpTo(Byte, MaxFileBytes), c \in {"OK", "EACCES", "EIO"}}
    \cup {[kind |-> "file", size |-> n, data |-> << 0 >>, readCode |-> c] :
        n \in {MAX_FILE_SIZE, MAX_FILE_SIZE + 1, 2 * MAX_FILE_SIZE},
        c \in {"OK", "EACCES", "EIO"}}

\* No tool invocation runs.
NoInvocations ==
    InitInvocations({}, [i \in Invocations |-> IdleTool], [i \in Invocations |-> IdleArgs])

InitLoad ==
    /\ NoInvocations
    /\ loadIn \in {[filePath |-> p, file |-> f] : p \in Paths, f \in FileStates}
    /\ loadOut = IdleOut
    /\ normIn = NoAttachments /\ normOut = IdleOut

\* await fileToBase64(filePath)
Load ==
    /\ ~loadOut.done
    /\ loadOut' = [done |-> TRUE,
                   result |-> fileToBase64On(loadIn.filePath, loadIn.file, loadIn.file)]
    /\ UNCHANGED << pc, tool, args, envelope, deepLink, processed, attachmentResults,
                    response, log, uploads, fs, loadIn, normIn, normOut, request >>

NextLoad == Load

SpecLoad == InitLoad /\ [][NextLoad]_vars

\* ------------------------- fileToBase64 while the file is being replaced

\* fileToBase64 has been called and has not called stat yet.
InitRace ==
    /\ NoInvocations
    /\ loadIn \in {[filePath |-> p, file |-> f] : p \in {"/docs/r.pdf"}, f \in FileStates}
    /\ loadOut = IdleOut
    /\ normIn = NoAttachments /\ normOut = IdleOut

\* const stats = await fs.stat(resolvedPath), and the two checks on stats:
\* the call ends here when stat or a check throws, else the entry as stat saw
\* it is kept while readFile is awaited.
StatFile ==
    LET early == fileToBase64On(loadIn.filePath, loadIn.file, loadIn.file)
    IN  /\ ~loadOut.done /\ "statted" \notin DOMAIN loadOut
        /\ IF early.readCalled
           THEN loadOut' = [done |-> FALSE, statted |-> loadIn.file]
           ELSE loadOut' = [done |-> TRUE, result |-> early]
        /\ UNCHANGED << pc, tool, args, envelope, deepLink, processed, attachmentResults,
                        response, log, uploads, fs, loadIn, normIn, normOut, request >>

\* Another process replaces, grows, truncates or removes the file.
ReplaceFile ==
    /\ ~loadOut.done
    /\ \E f \in FileStates :
          /\ f # loadIn.file
          /\ loadIn' = [loadIn EXCEPT !.file = f]
    /\ UNCHANGED << pc, tool, args, envelope, deepLink, processed, attachmentResults,
                    response, log, uploads, fs, loadOut, normIn, normOut, request >>

\* const fileBuffer = await fs.readFile(resolvedPath), and the rest of the
\* call, on the entry as it is now.
ReadAndEncode ==
    /\ ~loadOut.done /\ "statted" \in DOMAIN loadOut
    /\ loadOut' = [done |-> TRUE,
                   result |-> fileToBase64On(loadIn.filePath, loadOut.statted, loadIn.file)]
    /\ UNCHANGED << pc, tool, args, envelope, deepLink, processed, attachmentResults,
                    response, log, uploads, fs, loadIn, normIn, normOut, request >>

NextRace == StatFile \/ ReplaceFile \/ ReadAndEncode

SpecRace == InitRace /\ [][NextRace]_vars

\* --------------------------------------------- processAttachments on its own

\* Any attachment input, valid under the schema or not.
AnyAttachment ==
    [fileName : {Undefined, "", "a.pdf"},
     mimeType : {Undefined, "text/plain"},
     filePath : {Undefined, "", "/docs/r.pdf", "scan.PNG"},
     base64Content : {NoContent, << >>, ContentA}]

\* The file systems processAttachments runs on: the one of the tools, and the
\* same with an empty file at /docs/r.pdf.
NormFs ==
    {ToolFs,
     [ToolFs EXCEPT !["/docs/r.pdf"] =
         [kind |-> "file", size |-> 0, data |-> << >>, readCode |-> "OK"]]}

InitNorm ==
    /\ pc = [i \in Invocations |-> "off"]
    /\ tool = [i \in Invocations |-> IdleTool]
    /\ args = [i \in Invocations |-> IdleArgs]
    /\ request = [i \in Invocations |-> NoAttachments]
    /\ envelope = [i \in Invocations |-> ResultEnvelope(NullEntity)]
    /\ deepLink = [i \in Invocations |-> NoLink]
    /\ processed = [i \in Invocations |-> << >>]
    /\ attachmentResults = [i \in Invocations |-> << >>]
    /\ response = [i \in Invocations |-> NoResponse]
    /\ log = [i \in Invocations |-> << >>]
    /\ uploads = << >>
    /\ fs \in NormFs
    /\ normIn \in {NoAttachments} \cup
                  {[present |-> TRUE, items |-> s] : s \in SeqsUpTo(AnyAttachment, MaxBatch)}
    /\ normOut = IdleOut
    /\ loadIn = IdleLoad /\ loadOut = IdleOut

\* await processAttachments(attachments)
Normalize ==
    /\ ~normOut.done
    /\ normOut' = [done |-> TRUE, result |-> processAttachments(normIn, fs)]
    /\ UNCHANGED << pc, tool, args, envelope, deepLink, processed, attachmentResults,
                    response, log, uploads, fs, loadIn, loadOut, normIn, request >>

NextNorm == Normalize

SpecNorm == InitNorm /\ [][NextNorm]_vars

\* ------------------------------------------------- a call from the host

\* The tools that take attachments.
CallTools == {n \in Tools : ToolTable[n].pipeline # "none"}

\* The attachment objects a call can carry before any schema has seen them.
RequestItems ==
    [fileName : {Undefined, "a.pdf"},
     mimeType : {Undefined},
     filePath : {Undefined, "/docs/r.pdf", "scan.PNG"},
     base64Content : {NoContent, << >>, ContentA}]

\* What the attachment schema of a tool makes of one attachment object: the
\* inline z.object wants the strings fileName and base64Content and strips
\* the key filePath, which it does not declare; attachmentSchema declares all
\* four keys and applies its refinements.
SchemaAccepts(name, data) ==
    IF ToolTable[name].schema = "attachmentSchema" THEN attachmentSchema(data)
    ELSE data.fileName # Undefined /\ data.base64Content # NoContent

SchemaOutput(name, data) ==
    IF ToolTable[name].schema = "attachmentSchema" THEN data
    ELSE [data EXCEPT !.filePath = Undefined]

InitCall ==
    /\ \E n \in CallTools :
          /\ tool = [i \in Invocations |-> IF i = 1 THEN n ELSE IdleTool]
          /\ request \in [Invocations ->
                            {NoAttachments} \cup
                            {[present |-> TRUE, items |-> r] :
                                r \in SeqsUpTo(RequestItems, MaxRequest)}]
          /\ request[2] = NoAttachments
    /\ pc = [i \in Invocations |-> IF i = 1 THEN "request" ELSE "off"]
    /\ args = [i \in Invocations |-> IdleArgs]
    /\ envelope = [i \in Invocations |-> ResultEnvelope(NullEntity)]
    /\ deepLink = [i \in Invocations |-> NoLink]
    /\ processed = [i \in Invocations |-> << >>]
    /\ attachmentResults = [i \in Invocations |-> << >>]
    /\ response = [i \in Invocations |-> NoResponse]
    /\ log = [i \in Invocations |-> << >>]
    /\ uploads = << >>
    /\ fs = ToolFs
    /\ loadIn = IdleLoad /\ loadOut = IdleOut
    /\ normIn = NoAttachments /\ normOut = IdleOut

\* The arguments of the call are parsed with the tool's schema: the handler
\* runs on the parsed value, and is not run when the schema rejects.
Validate(i) ==
    LET r == request[i]
        accepted == \A k \in DOMAIN r.items : SchemaAccepts(tool[i], r.items[k])
        parsed == [present |-> r.present,
                   items |-> [k \in DOMAIN r.items |-> SchemaOutput(tool[i], r.items[k])]]
    IN  /\ pc[i] = "request"
        /\ IF accepted THEN
              /\ args' = [args EXCEPT ![i] = [attachments |-> parsed, accountId |-> Undefined]]
              /\ pc' = [pc EXCEPT ![i] = "start"]
           ELSE
              /\ pc' = [pc EXCEPT ![i] = "rejected"]
              /\ UNCHANGED args
        /\ UNCHANGED << tool, envelope, deepLink, processed, attachmentResults, response,
                        log, uploads, fs, pureVars >>

NextCall ==
    \/ \E i \in Invocations : Validate(i)
    \/ \E i \in Invocations : HandlerReturns(i)
    \/ \E i \in Invocations : ComputeDeepLink(i)
    \/ \E i \in Invocations : StartAttachments(i)
    \/ \E i \in Invocations : UploadAttachment(i)
    \/ \E i \in Invocations : Respond(i)

SpecCall == InitCall /\ [][NextCall]_vars

\* ------------------------------------------ a file through the pipeline

\* The tools whose attachments go through attachmentSchema and the normalizer.
PipeTools == {n \in Tools : ToolTable[n].schema = "attachmentSchema"}

\* The attachments sent through: inline content, the file at /docs/r.pdf
\* under its own name, and the same file under another name in an input that
\* carries inline content as well.
PipeItems ==
    {x \in AttachmentItems : x.filePath \in {Undefined, "/docs/r.pdf"} /\ Truthy(x.fileName)
                             /\ x.mimeType = Undefined /\ x.base64Content # << >>}
    \cup {[fileName |-> Undefined, mimeType |-> Undefined, filePath |-> "/docs/r.pdf",
           base64Content |-> NoContent]}

\* The contents the file at /docs/r.pdf can have.
PipeContents == SeqsUpTo(Byte, MaxFileBytes) \cup {<< 77, 0, 255 >>}

InitPipe ==
    /\ \E n \in PipeTools :
          /\ tool = [i \in Invocations |-> IF i = 1 THEN n ELSE IdleTool]
          /\ \E s \in SeqsUpTo(PipeItems \cap ValidItems(n), MaxBatch) :
                args = [i \in Invocations |->
                          IF i = 1 THEN [attachments |-> [present |-> TRUE, items |-> s],
                                         accountId |-> Undefined]
                          ELSE IdleArgs]
    /\ \E d \in PipeContents :
          fs = [ToolFs EXCEPT !["/docs/r.pdf"] =
                   [kind |-> "file", size |-> Len(d), data |-> d, readCode |-> "OK"]]
    /\ request = [i \in Invocations |-> args[i].attachments]
    /\ pc = [i \in Invocations |-> IF i = 1 THEN "start" ELSE "off"]
    /\ envelope = [i \in Invocations |-> ResultEnvelope(NullEntity)]
    /\ deepLink = [i \in Invocations |-> NoLink]
    /\ processed = [i \in Invocations |-> << >>]
    /\ attachmentResults = [i \in Invocations |-> << >>]
    /\ response = [i \in Invocations |-> NoResponse]
    /\ log = [i \in Invocations |-> << >>]
    /\ uploads = << >>
    /\ loadIn = IdleLoad /\ loadOut = IdleOut
    /\ normIn = NoAttachments /\ normOut = IdleOut

NextPipe ==
    \/ \E i \in Invocations : HandlerReturns(i)
    \/ \E i \in Invocations : ComputeDeepLink(i)
    \/ \E i \in Invocations : StartAttachments(i)
    \/ \E i \in Invocations : UploadAttachment(i)
    \/ \E i \in Invocations : Respond(i)

SpecPipe == InitPipe /\ [][NextPipe]_vars

\* ------------------------------------------------ concurrent invocations

\* The tools of the two invocations that interleave.
ConcurrentTools(i) ==
    IF i = 1 THEN {"update-invoice", "update-manual-journal"} ELSE {"create-credit-note"}

\* The attachments of each: those of invocation 1 are uploaded as a.pdf and
\* r.pdf, those of invocation 2 (inline content, and a file that is missing)
\* as b.png.
ConcurrentItems(i) ==
    {x \in AttachmentItems :
        IF i = 1
        THEN (x.fileName = "a.pdf" /\ x.filePath = Undefined /\ x.base64Content = ContentA)
             \/ (x.fileName = Undefined /\ x.filePath = "/docs/r.pdf")
        ELSE x.fileName = "b.png"}

ConcurrentArgs(i, name) ==
    {[attachments |-> [present |-> TRUE, items |-> s], accountId |-> Undefined] :
        s \in {q \in SeqsUpTo(ConcurrentItems(i) \cap ValidItems(name), MaxConcurrentBatch) :
                  Len(q) > 0}}

InitConcurrent ==
    /\ \E n1 \in ConcurrentTools(1), n2 \in ConcurrentTools(2) :
          \E a1 \in ConcurrentArgs(1, n1), a2 \in ConcurrentArgs(2, n2) :
              InitInvocations(Invocations,
                              [i \in Invocations |-> IF i = 1 THEN n1 ELSE n2],
                              [i \in Invocations |-> IF i = 1 THEN a1 ELSE a2])
    /\ loadIn = IdleLoad /\ loadOut = IdleOut
    /\ normIn = NoAttachments /\ normOut = IdleOut

\* The upload calls of invocation i that have not returned or thrown yet.
InFlight(i) == Len(SelectSeq(uploads, LAMBDA u : u.invocation = i))
               - Len(SelectSeq(attachmentResults[i], LAMBDA r : r.fileName # "unknown"))

\* Faulty variant: the next upload is issued without awaiting the last one.
IssueUploadWithoutAwait(i) ==
    LET k == Len(SelectSeq(uploads, LAMBDA u : u.invocation = i)) + 1
    IN  /\ pc[i] \in {"upload", "uploading"}
        /\ k <= Len(processed[i])
        /\ \E threw \in BOOLEAN :
              uploads' = Append(uploads,
                    [invocation |-> i, resourceId |-> envelope[i].result.id,
                     fileName |-> processed[i][k].fileName,
                     bytes |-> Base64Decode(processed[i][k].base64Content),
                     threw |-> threw])
        /\ pc' = [pc EXCEPT ![i] = "uploading"]
        /\ UNCHANGED << tool, args, envelope, deepLink, processed, attachmentResults,
                        response, log, fs, pureVars >>

\* Faulty variant: the entity is kept in a variable the invocations share,
\* which holds the entity of the handler that returned last.
IssueUploadOnSharedEntity(i) ==
    LET k == Len(attachmentResults[i]) + 1
        attachment == processed[i][k]
        last == IF pc[2] \notin {"start", "off"} THEN 2 ELSE 1
    IN  /\ pc[i] = "upload"
        /\ \E threw \in BOOLEAN :
              uploads' = Append(uploads,
                    [invocation |-> i, resourceId |-> envelope[last].result.id,
                     fileName |-> attachment.fileName,
                     bytes |-> Base64Decode(attachment.base64Content),
                     threw |-> threw])
        /\ pc' = [pc EXCEPT ![i] = "uploading"]
        /\ UNCHANGED << tool, args, envelope, deepLink, processed, attachmentResults,
                        response, log, fs, pureVars >>

\* await xeroClient.accountingApi.create...AttachmentByFileName(...): the call
\* of the next attachment is issued; the handler is suspended until the call
\* returns or throws, which the remote decides.
IssueUpload(i) ==
    LET k == Len(attachmentResults[i]) + 1
        attachment == processed[i][k]
    IN  /\ pc[i] = "upload"
        /\ \E threw \in BOOLEAN :
              uploads' = Append(uploads,
                    [invocation |-> i, resourceId |-> envelope[i].result.id,
                     fileName |-> attachment.fileName,
                     bytes |-> Base64Decode(attachment.base64Content),
                     threw |-> threw])
        /\ pc' = [pc EXCEPT ![i] = "uploading"]
        /\ UNCHANGED << tool, args, envelope, deepLink, processed, attachmentResults,
                        response, log, fs, pureVars >>

\* The awaited call returns or throws: the handler resumes, pushes the result
\* and goes to the next attachment.
SettleUpload(i) ==
    LET k == Len(attachmentResults[i]) + 1
        mine == SelectSeq(uploads, LAMBDA u : u.invocation = i)
        call == mine[Len(mine)]
    IN  /\ pc[i] = "uploading"
        /\ attachmentResults' = [attachmentResults EXCEPT ![i] = Append(@,
              IF call.threw
              THEN [fileName |-> processed[i][k].fileName, status |-> "failed",
                    error |-> << "upload failed" >>]
              ELSE [fileName |-> processed[i][k].fileName, status |-> "success",
                    error |-> << >>])]
        /\ log' = [log EXCEPT ![i] = Append(@, "upload")]
        /\ pc' = [pc EXCEPT ![i] = IF k = Len(processed[i]) THEN "respond" ELSE "upload"]
        /\ UNCHANGED << tool, args, envelope, deepLink, processed, response, uploads, fs,
                        pureVars >>

NextConcurrent ==
    \/ \E i \in Invocations : HandlerReturns(i)
    \/ \E i \in Invocations : ComputeDeepLink(i)
    \/ \E i \in Invocations : StartAttachments(i)
    \/ \E i \in Invocations : IssueUpload(i)
    \/ \E i \in Invocations : SettleUpload(i)
    \/ \E i \in Invocations : Respond(i)

SpecConcurrent == InitConcurrent /\ [][NextConcurrent]_vars

\* ------------------------------------------- the account entity handlers

\* The entity handler a tool calls, on the arguments of invocation i.
AccountHandler(i, auth, remote) ==
    IF tool[i] = "create-account" THEN createXeroAccount(args[i].accountId, auth, remote)
    ELSE getXeroAccount(args[i].accountId, auth, remote)

\* The accountId arguments the handlers are called with.
HandlerArgs(name) ==
    {[attachments |-> NoAttachments, accountId |-> acc] :
        acc \in IF name = "create-account" THEN {Undefined, "", "E-9"} ELSE {"E-9"}}

\* Two calls of the account handlers, which share the client.
InitHandler ==
    /\ tool \in [Invocations -> {"create-account", "get-account"}]
    /\ args \in [Invocations -> HandlerArgs("create-account") \cup HandlerArgs("get-account")]
    /\ \A i \in Invocations : args[i] \in HandlerArgs(tool[i])
    /\ pc = [i \in Invocations |-> "entered"]
    /\ request = [i \in Invocations |-> NoAttachments]
    /\ envelope = [i \in Invocations |-> ResultEnvelope(NullEntity)]
    /\ deepLink = [i \in Invocations |-> NoLink]
    /\ processed = [i \in Invocations |-> << >>]
    /\ attachmentResults = [i \in Invocations |-> << >>]
    /\ response = [i \in Invocations |-> NoResponse]
    /\ log = [i \in Invocations |-> << >>]
    /\ uploads = << >>
    /\ fs = ToolFs
    /\ loadIn = IdleLoad /\ loadOut = IdleOut
    /\ normIn = NoAttachments /\ normOut = IdleOut

\* await xeroClient.authenticate(): it returns, or it throws and the catch
\* block of the handler returns the error envelope.
Authenticate(i) ==
    /\ pc[i] = "entered"
    /\ log' = [log EXCEPT ![i] = Append(@, "authenticate")]
    /\ \/ /\ pc' = [pc EXCEPT ![i] = "authenticated"]
          /\ UNCHANGED envelope
       \/ \E remote \in RemoteAccountOutcomes(EntityIdOf(i)) :
             /\ envelope' = [envelope EXCEPT ![i] = AccountHandler(i, "throws", remote).envelope]
             /\ pc' = [pc EXCEPT ![i] = "settled"]
    /\ UNCHANGED << tool, args, deepLink, processed, attachmentResults, response,
                    uploads, fs, pureVars >>

\* await xeroClient.accountingApi.<call>(...), and the return of the handler:
\* the account, or the error envelope when the call throws or answers without
\* an account.
CallRemote(i) ==
    /\ pc[i] = "authenticated"
    /\ \E remote \in RemoteAccountOutcomes(EntityIdOf(i)) :
          LET r == AccountHandler(i, "ok", remote)
          IN  /\ log' = [log EXCEPT ![i] = @ \o Tail(r.calls)]
              /\ envelope' = [envelope EXCEPT ![i] = r.envelope]
    /\ pc' = [pc EXCEPT ![i] = "settled"]
    /\ UNCHANGED << tool, args, deepLink, processed, attachmentResults, response,
                    uploads, fs, pureVars >>

NextHandler ==
    \/ \E i \in Invocations : Authenticate(i)
    \/ \E i \in Invocations : CallRemote(i)

SpecHandler == InitHandler /\ [][NextHandler]_vars

\* ------------------------------------------------------------ properties

\* The upload calls invocation i has made, in order.
UploadsOf(i) == SelectSeq(uploads, LAMBDA u : u.invocation = i)

\* Invocation i is past its attachment block: it is about to build, or has
\* returned, its success text.
PastAttachments(i) ==
    \/ pc[i] = "respond"
    \/ pc[i] = "returned" /\ response[i].text[1][1] \notin ErrorPrefixes

HandlerReturned(i) == Len(log[i]) > 0

\* Some line of the response text of invocation i starts with the fragment.
HasLine(i, first) ==
    \E k \in DOMAIN response[i].text :
        Len(response[i].text[k]) > 0 /\ response[i].text[k][1] = first

\* C1: the upload loop attempts every ready-to-upload attachment exactly once,
\* in order, whatever uploads throw, and records one result per attachment in
\* order: failed with an error message exactly where the upload call threw,
\* success without an error elsewhere.
C1_UploadIsolation ==
    \A i \in Invocations :
        LET ups == UploadsOf(i)
            res == attachmentResults[i]
        IN  Len(processed[i]) > 0 =>
              /\ Len(ups) = Len(res)
              /\ PastAttachments(i) => Len(res) = Len(processed[i])
              /\ \A k \in DOMAIN res :
                    /\ ups[k].fileName = processed[i][k].fileName
                    /\ res[k].fileName = processed[i][k].fileName
                    /\ res[k].status = IF ups[k].threw THEN "failed" ELSE "success"
                    /\ (res[k].error # << >>) <=> ups[k].threw

\* Three attachments, the second upload threw, and the loop went on.
C1_Witness ==
    \E i \in Invocations :
        /\ pc[i] = "returned" /\ Len(processed[i]) = 3
        /\ Len(UploadsOf(i)) = 3
        /\ ~UploadsOf(i)[1].threw /\ UploadsOf(i)[2].threw /\ ~UploadsOf(i)[3].threw
        /\ attachmentResults[i][2].status = "failed"
        /\ attachmentResults[i][3].status = "success"

\* C2: no tool handler lets an exception escape to the host: every finished
\* invocation has returned the one-text-block shape.
C2_NoEscape ==
    \A i \in Invocations : pc[i] # "threw"

\* C3: once the entity handler has returned a non-error envelope, the
\* invocation ends with the success text of the entity, never with an error
\* text and never with an exception.
C3_SuccessStands ==
    \A i \in Invocations :
        (HandlerReturned(i) /\ ~envelope[i].isError /\ pc[i] \in {"returned", "threw"}) =>
            /\ pc[i] = "returned"
            /\ response[i].kind = "text"
            /\ response[i].text[1][1] = SuccessHead(tool[i], args[i])

\* Some item of the attachment arguments of invocation i does not normalize.
SomeItemFails(i) ==
    \E k \in DOMAIN args[i].attachments.items :
        ~ProcessOne(args[i].attachments.items[k], fs).ok

\* C4: when an item of the list does not normalize, the tool makes no upload
\* call at all and its result list is the single entry unknown/failed whose
\* error is "Processing failed: " followed by the normalizer's one error,
\* which starts with "Failed to process attachment: ".
C4_FailFastReport ==
    \A i \in Invocations :
        (ToolTable[tool[i]].pipeline = "normalizer" /\ AttachmentGuard(i)
            /\ PastAttachments(i) /\ SomeItemFails(i)) =>
            /\ UploadsOf(i) = << >>
            /\ processed[i] = << >>
            /\ Len(attachmentResults[i]) = 1
            /\ attachmentResults[i][1].fileName = "unknown"
            /\ attachmentResults[i][1].status = "failed"
            /\ Len(attachmentResults[i][1].error) > 2
            /\ attachmentResults[i][1].error[1] = "Processing failed: "
            /\ attachmentResults[i][1].error[2] = "Failed to process attachment: "

\* The first item normalizes, a later one does not, and the tool has returned.
C4_Witness ==
    \E i \in Invocations :
        /\ ToolTable[tool[i]].pipeline = "normalizer" /\ AttachmentGuard(i)
        /\ pc[i] = "returned"
        /\ Len(args[i].attachments.items) > 1
        /\ ProcessOne(args[i].attachments.items[1], fs).ok
        /\ SomeItemFails(i)

\* C5: the entity handler returns before any other call of the invocation,
\* and on the error envelope the invocation makes no deep-link, normalization
\* or upload call and returns the text that starts with the error prefix of
\* the operation.
C5_PrimaryFirst ==
    \A i \in Invocations :
        /\ HandlerReturned(i) => log[i][1] = "handler"
        /\ ~HandlerReturned(i) => UploadsOf(i) = << >>
        /\ (HandlerReturned(i) /\ envelope[i].isError) =>
              /\ log[i] = << "handler" >>
              /\ UploadsOf(i) = << >>
              /\ deepLink[i] = NoLink
              /\ attachmentResults[i] = << >>
              /\ pc[i] = "returned"
              /\ response[i].kind = "text"
              /\ response[i].text = << << ErrorPrefix(tool[i], args[i]), envelope[i].error >> >>

\* The handler failed for an invocation that came with attachments.
C5_Witness ==
    \E i \in Invocations :
        /\ HandlerReturned(i) /\ envelope[i].isError /\ pc[i] = "returned"
        /\ Len(args[i].attachments.items) > 0

\* The attachment list is absent or empty, or the entity has no identifier.
NothingToAttach(i) ==
    \/ ~args[i].attachments.present
    \/ Len(args[i].attachments.items) = 0
    \/ ~Truthy(envelope[i].result.id)

\* C6: with no attachment list, an empty one, or an entity without identifier,
\* the invocation makes no normalization and no upload call, has no attachment
\* result, and its response text has no "Attachments:" line; the success text
\* of create-invoice still has its ID, Contact, Total and Status lines.
C6_AttachmentGuard ==
    \A i \in Invocations :
        NothingToAttach(i) =>
            /\ \A k \in DOMAIN log[i] : log[i][k] \notin {"processAttachments", "upload"}
            /\ UploadsOf(i) = << >>
            /\ attachmentResults[i] = << >>
            /\ ~HasLine(i, "Attachments: ")
            /\ (tool[i] = "create-invoice" /\ pc[i] = "returned" /\ ~envelope[i].isError) =>
                  /\ HasLine(i, "ID: ") /\ HasLine(i, "Contact: ")
                  /\ HasLine(i, "Total: ") /\ HasLine(i, "Status: ")

\* A tool returned its success text for an entity without identifier although
\* attachments were supplied.
C6_Witness ==
    \E i \in Invocations :
        /\ pc[i] = "returned" /\ ~envelope[i].isError
        /\ ToolTable[tool[i]].pipeline # "none"
        /\ Len(args[i].attachments.items) > 0
        /\ ~Truthy(envelope[i].result.id)

\* C7 as claimed: whenever attachment handling runs, there are as many results
\* as attachment inputs and result k carries the file name of input k.
C7_OnePerInput ==
    \A i \in Invocations :
        (AttachmentGuard(i) /\ PastAttachments(i)) =>
            /\ Len(attachmentResults[i]) = Len(args[i].attachments.items)
            /\ \A k \in DOMAIN attachmentResults[i] :
                  attachmentResults[i][k].fileName = args[i].attachments.items[k].fileName

\* The file name under which input x is uploaded: its fileName when it has
\* one, else the base name of its file.
UploadName(x) ==
    IF Truthy(x.filePath) /\ ~Truthy(x.fileName)
    THEN Basename(Resolve(x.filePath)) ELSE x.fileName

\* C7 as amended: whenever attachment handling runs and no item fails to
\* normalize, there are as many results as inputs and result k carries the
\* file name input k is uploaded under; when an item fails to normalize there
\* is the single result "unknown".
C7_OnePerInputUnlessBatchFails ==
    \A i \in Invocations :
        (AttachmentGuard(i) /\ PastAttachments(i)) =>
            IF ToolTable[tool[i]].pipeline = "normalizer" /\ SomeItemFails(i)
            THEN /\ Len(attachmentResults[i]) = 1
                 /\ attachmentResults[i][1].fileName = "unknown"
            ELSE /\ Len(attachmentResults[i]) = Len(args[i].attachments.items)
                 /\ \A k \in DOMAIN attachmentResults[i] :
                       attachmentResults[i][k].fileName =
                           UploadName(args[i].attachments.items[k])

\* A normalizing tool returned after uploading two inputs, one of them a file
\* named by its path only, one a file with a fileName override.
C7_Witness ==
    \E i \in Invocations :
        /\ ToolTable[tool[i]].pipeline = "normalizer" /\ AttachmentGuard(i)
        /\ pc[i] = "returned" /\ ~SomeItemFails(i)
        /\ Len(attachmentResults[i]) > 1
        /\ \E k \in DOMAIN args[i].attachments.items :
              /\ Truthy(args[i].attachments.items[k].filePath)
              /\ ~Truthy(args[i].attachments.items[k].fileName)
        /\ \E k \in DOMAIN args[i].attachments.items :
              /\ Truthy(args[i].attachments.items[k].filePath)
              /\ Truthy(args[i].attachments.items[k].fileName)

\* C8: a regular file whose size, as stat reports it, is over 10 MiB makes
\* fileToBase64 fail with the "File too large" error without calling readFile
\* and without returning any content.
C8_SizeCeiling ==
    (loadOut.done /\ loadIn.file.kind = "file" /\ loadIn.file.size > 10 * 1024 * 1024) =>
        /\ ~loadOut.result.ok
        /\ loadOut.result.error[1] = "File too large: "
        /\ ~loadOut.result.readCalled
        /\ loadOut.result.value.base64Content = << >>

\* fileToBase64 has run on a readable file of one byte over the ceiling.
C8_Witness ==
    /\ loadOut.done
    /\ loadIn.file.kind = "file" /\ loadIn.file.readCode = "OK"
    /\ loadIn.file.size = MAX_FILE_SIZE + 1

\* The input has neither a filePath nor base64Content (absent or empty).
MissingSource(x) == ~Truthy(x.filePath) /\ ~TruthyContent(x.base64Content)

\* Every item before item k of the list normalizes.
EarlierItemsPass(k) ==
    \A j \in 1..(k - 1) : ProcessOne(normIn.items[j], fs).ok

\* C9: an input with neither filePath nor base64Content, whatever its fileName
\* and mimeType, is rejected by attachmentSchema and makes processAttachments
\* fail; when the loop reaches it, the error is "Failed to process attachment:
\* Either filePath or base64Content must be provided".
C9_MissingSource ==
    normOut.done =>
        \A k \in DOMAIN normIn.items :
            MissingSource(normIn.items[k]) =>
                /\ ~attachmentSchema(normIn.items[k])
                /\ ~normOut.result.ok
                /\ normOut.result.value = << >>
                /\ EarlierItemsPass(k) =>
                      /\ normOut.result.failedAt = k
                      /\ normOut.result.error =
                            << "Failed to process attachment: ",
                               "Either filePath or base64Content must be provided" >>

\* processAttachments has run on a list whose first item normalizes and whose
\* second has a fileName and a mimeType but no source.
C9_Witness ==
    /\ normOut.done
    /\ Len(normIn.items) = 2
    /\ ProcessOne(normIn.items[1], fs).ok
    /\ MissingSource(normIn.items[2])
    /\ normIn.items[2].fileName = "a.pdf"
    /\ normIn.items[2].mimeType = "text/plain"

MissingFileNameError ==
    << "Failed to process attachment: ", "fileName is required when using base64Content" >>

\* C10 as claimed: an input with base64Content and without fileName makes
\* normalization fail with "fileName is required when using base64Content",
\* whether or not it has a filePath.
C10_MissingFileName ==
    normOut.done =>
        \A k \in DOMAIN normIn.items :
            (TruthyContent(normIn.items[k].base64Content)
                /\ normIn.items[k].fileName = Undefined
                /\ EarlierItemsPass(k)) =>
                /\ ~normOut.result.ok
                /\ normOut.result.error = MissingFileNameError

\* C10 as amended: an input with base64Content, without fileName and without
\* filePath makes normalization fail with "Failed to process attachment:
\* fileName is required when using base64Content".
C10_MissingFileNameByContent ==
    normOut.done =>
        \A k \in DOMAIN normIn.items :
            (TruthyContent(normIn.items[k].base64Content)
                /\ normIn.items[k].fileName = Undefined
                /\ ~Truthy(normIn.items[k].filePath)
                /\ EarlierItemsPass(k)) =>
                /\ ~normOut.result.ok
                /\ normOut.result.failedAt = k
                /\ normOut.result.error = MissingFileNameError

\* processAttachments has run on inline content without a fileName.
C10_Witness ==
    /\ normOut.done
    /\ Len(normIn.items) > 0
    /\ TruthyContent(normIn.items[1].base64Content)
    /\ normIn.items[1].fileName = Undefined
    /\ ~Truthy(normIn.items[1].filePath)
    /\ ~normOut.result.ok

\* C11: a by-path input that normalizes gets its fileName override when one is
\* given (non-empty), else the base name of the resolved path, and its mimeType
\* override when one is given, else detectMimeType of the loaded file's name; a
\* by-content input keeps its base64Content and fileName as supplied and gets
\* its mimeType override when one is given, else detectMimeType(fileName).
C11_OverridePrecedence ==
    (normOut.done /\ normOut.result.ok) =>
        /\ Len(normOut.result.value) = Len(normIn.items)
        /\ \A k \in DOMAIN normIn.items :
              LET x == normIn.items[k]
                  y == normOut.result.value[k]
                  loadedName == Basename(Resolve(x.filePath))
              IN  IF Truthy(x.filePath) THEN
                      /\ y.fileName = IF Truthy(x.fileName) THEN x.fileName ELSE loadedName
                      /\ y.mimeType = IF Truthy(x.mimeType) THEN x.mimeType
                                      ELSE detectMimeType(loadedName)
                  ELSE
                      /\ y.base64Content = x.base64Content
                      /\ y.fileName = x.fileName
                      /\ y.mimeType = IF Truthy(x.mimeType) THEN x.mimeType
                                      ELSE detectMimeType(x.fileName)

\* processAttachments has normalized a by-path input with a fileName override
\* and no mimeType override, and a by-content input with a mimeType override.
C11_Witness ==
    /\ normOut.done /\ normOut.result.ok
    /\ Len(normIn.items) = 2
    /\ Truthy(normIn.items[1].filePath) /\ Truthy(normIn.items[1].fileName)
    /\ normIn.items[1].mimeType = Undefined
    /\ ~Truthy(normIn.items[2].filePath) /\ normIn.items[2].mimeType = "text/plain"

\* An attachment has exactly one of its two sources, and a fileName when the
\* source is base64Content.
ExactlyOneSource(x) ==
    /\ Truthy(x.filePath) # TruthyContent(x.base64Content)
    /\ TruthyContent(x.base64Content) => Truthy(x.fileName)

\* C12: attachmentSchema accepts an attachment iff exactly one of filePath and
\* base64Content is present and, when base64Content is present, fileName is
\* present; an input carrying both sources is rejected.
C12_BoundaryInvariant ==
    \A k \in DOMAIN normIn.items :
        attachmentSchema(normIn.items[k]) <=> ExactlyOneSource(normIn.items[k])

\* The envelope has exactly one meaningful side.
WellFormedEnvelope(e) ==
    /\ e.isError <=> e.result = NullEntity
    /\ e.isError <=> e.error # Null

\* C13: every envelope createXeroAccount and getXeroAccount return has isError
\* true iff result is null iff error is non-null; a remote call that returns
\* no entity, and a throw of authenticate or of the remote call, give the
\* error envelope.
C13_EnvelopeInvariant ==
    \A i \in Invocations :
        tool[i] \in {"create-account", "get-account"} =>
            /\ HandlerReturned(i) => WellFormedEnvelope(envelope[i])
            /\ \A auth \in {"ok", "throws"}, remote \in RemoteAccountOutcomes(EntityIdOf(i)) :
                  LET created == createXeroAccount(args[i].accountId, auth, remote).envelope
                      got == getXeroAccount(args[i].accountId, auth, remote).envelope
                      fails == auth = "throws" \/ remote.kind \in {"throws", "empty"}
                  IN  /\ WellFormedEnvelope(created) /\ WellFormedEnvelope(got)
                      /\ fails => created.isError /\ got.isError
                      /\ ~fails => created = ResultEnvelope(remote.account)
                                   /\ got = ResultEnvelope(remote.account)

\* create-account has returned on the error envelope of a response that
\* carried no account.
C13_Witness ==
    \E i \in Invocations :
        /\ tool[i] = "create-account" /\ pc[i] = "returned"
        /\ envelope[i] = ErrorEnvelope("Account creation/update failed.")

\* Call i carries exactly one attachment, given by a path at which the file
\* system has nothing.
OneMissingPathAttachment(i) ==
    /\ request[i].present /\ Len(request[i].items) = 1
    /\ Truthy(request[i].items[1].filePath)
    /\ ~TruthyContent(request[i].items[1].base64Content)
    /\ fs[Resolve(request[i].items[1].filePath)] = NoFile

\* C14: create-bank-transaction called with one by-path attachment whose file
\* does not exist, whose handler succeeded with an identifier: the result list
\* is one failed entry whose error contains "File not found", no upload call
\* was made, and the response text reports the bank transaction.
C14_ScenarioB ==
    \A i \in Invocations :
        ( /\ tool[i] = "create-bank-transaction"
          /\ OneMissingPathAttachment(i)
          /\ HandlerReturned(i) /\ ~envelope[i].isError
          /\ Truthy(envelope[i].result.id) /\ envelope[i].result.bankAccount # "absent"
          /\ pc[i] = "returned" ) =>
            /\ Len(attachmentResults[i]) = 1
            /\ attachmentResults[i][1].status = "failed"
            /\ Includes(attachmentResults[i][1].error, "File not found")
            /\ UploadsOf(i) = << >>
            /\ HasLine(i, "Bank transaction successfully:")

\* Some line of the response text of invocation i holds the fragment.
TextMentions(i, fragment) ==
    \E k \in DOMAIN response[i].text :
        \E f \in DOMAIN response[i].text[k] : response[i].text[k][f] = fragment

\* C15: the success text update-manual-journal returns for two balanced
\* journal lines lists both lines with their account codes.
C15_ScenarioC ==
    \A i \in Invocations :
        ( /\ tool[i] = "update-manual-journal" /\ pc[i] = "returned"
          /\ ManualJournalLines[1].lineAmount + ManualJournalLines[2].lineAmount = 0
          /\ HasLine(i, "Manual journal updated: ") ) =>
            \A l \in DOMAIN ManualJournalLines :
                TextMentions(i, ManualJournalLines[l].accountCode)

\* C16: when create-account has created an account that has an accountID, its
\* response text has a "Link to view: " line with a deep link to the account.
C16_AccountDeepLink ==
    \A i \in Invocations :
        ( /\ tool[i] = "create-account" /\ pc[i] = "returned"
          /\ HasLine(i, "Account created: ")
          /\ Truthy(envelope[i].result.id) ) =>
            /\ HasLine(i, "Link to view: ")
            /\ deepLink[i] # NoLink
            /\ TextMentions(i, envelope[i].result.id)

\* The message names the path: one of its fragments is the path as given, or
\* the resolved path, which ends with it.
NamesPath(message, filePath) ==
    \E k \in DOMAIN message : message[k] \in {filePath, Resolve(filePath)}

\* C17: every failure of fileToBase64 carries a message that includes the
\* filePath argument as the caller gave it.
C17_MessageNamesPath ==
    (loadOut.done /\ ~loadOut.result.ok) =>
        NamesPath(loadOut.result.error, loadIn.filePath)

\* C18: fileToBase64 turns ENOENT into "File not found: <path>", EACCES into
\* "Permission denied: <path>", a non-regular entry into "Path is not a file:
\* <path>" whatever its size, and every other error of stat or readFile into
\* "Unable to read file: <path> - <cause>".
C18_TotalClassification ==
    (loadOut.done /\ ~loadOut.result.ok) =>
        LET f == loadIn.file
            p == loadIn.filePath
            e == loadOut.result.error
            readable == f.kind = "file" /\ f.size <= MAX_FILE_SIZE
            otherError == f.kind = "ioerr" \/ (readable /\ f.readCode = "EIO")
        IN  /\ f.kind = "missing" => e = << "File not found: ", p >>
            /\ (f.kind = "denied" \/ (readable /\ f.readCode = "EACCES")) =>
                  e = << "Permission denied: ", p >>
            /\ f.kind = "dir" => e = << "Path is not a file: ", p >>
            /\ otherError =>
                  /\ Len(e) > 3
                  /\ SubSeq(e, 1, 3) = << "Unable to read file: ", p, " - " >>
                  /\ SubSeq(e, 4, Len(e)) =
                        OsError("EIO", IF f.kind = "ioerr" THEN "stat" ELSE "open",
                                Resolve(p)).message

\* C19: the success text of every tool has no empty line and no null
\* placeholder where the "Attachments:" or the "Link to view:" line is absent.
C19_AbsentLinesFiltered ==
    \A i \in Invocations :
        (pc[i] = "returned" /\ PastAttachments(i)) =>
            \A k \in DOMAIN response[i].text :
                /\ response[i].text[k] # << >>
                /\ response[i].text[k] # NullLine

\* C20: the bytes of every upload call made for an attachment given by path
\* are the bytes readFile returned for that path, whatever their number.
C20_RoundTrip ==
    \A i \in Invocations :
        \A k \in DOMAIN UploadsOf(i) :
            LET x == args[i].attachments.items[k]
            IN  Truthy(x.filePath) =>
                    UploadsOf(i)[k].bytes = ReadFile(fs[Resolve(x.filePath)]).bytes

\* An upload call has been made for a by-path attachment whose file is empty,
\* after one for inline content.
C20_Witness ==
    \E i \in Invocations :
        /\ Len(UploadsOf(i)) = 2
        /\ ~Truthy(args[i].attachments.items[1].filePath)
        /\ Truthy(args[i].attachments.items[2].filePath)
        /\ fs[Resolve(args[i].attachments.items[2].filePath)].data = << >>
        /\ UploadsOf(i)[2].bytes = << >>

\* C21: every element processAttachments returns has a non-empty fileName, a
\* non-empty mimeType and its base64Content set: the inline content as given,
\* which is non-empty, or the encoding of the bytes of the file, which is the
\* empty text for an empty file.
C21_ProcessedAttachment ==
    (normOut.done /\ normOut.result.ok) =>
        \A k \in DOMAIN normOut.result.value :
            LET x == normIn.items[k]
                y == normOut.result.value[k]
            IN  /\ Truthy(y.fileName)
                /\ Truthy(y.mimeType)
                /\ y.base64Content # NoContent
                /\ Len(y.base64Content) % 4 = 0
                /\ IF Truthy(x.filePath)
                   THEN y.base64Content = Base64Encode(ReadFile(fs[Resolve(x.filePath)]).bytes)
                   ELSE y.base64Content = x.base64Content /\ TruthyContent(y.base64Content)

\* processAttachments has returned an element for a by-path input without
\* overrides and one for inline content without a mimeType.
C21_Witness ==
    /\ normOut.done /\ normOut.result.ok
    /\ Len(normOut.result.value) = 2
    /\ Truthy(normIn.items[1].filePath)
    /\ normIn.items[1].fileName = Undefined /\ normIn.items[1].mimeType = Undefined
    /\ ~Truthy(normIn.items[2].filePath) /\ normIn.items[2].mimeType = Undefined
    /\ fs["/docs/r.pdf"].size > 0

\* The calls invocation i has made include a call for a deep link.
LinkAsked(i) == \E k \in DOMAIN log[i] : log[i][k] = "deepLink"

\* C22: a deep link is asked for only after the entity handler has returned a
\* non-error envelope whose entity has a non-empty identifier (and, for a bank
\* transaction, a bank account with an identifier); a link is held only when
\* it was asked for; and the success text has the line "Link to view: <link>"
\* iff a link is held.
C22_DeepLinkGuard ==
    \A i \in Invocations :
        /\ LinkAsked(i) =>
              /\ log[i][1] = "handler" /\ log[i][2] = "deepLink"
              /\ ~envelope[i].isError
              /\ Truthy(envelope[i].result.id)
              /\ ToolTable[tool[i]].link = "bank" => envelope[i].result.bankAccount = "id"
        /\ deepLink[i] # NoLink =>
              /\ LinkAsked(i)
              /\ deepLink[i] = DeepLinkUrl(DeepLinkType(tool[i], envelope[i].result),
                                           envelope[i].result.id)
        /\ (pc[i] = "returned" /\ PastAttachments(i)) =>
              /\ HasLine(i, "Link to view: ") <=> deepLink[i] # NoLink
              /\ \A k \in DOMAIN response[i].text :
                    (Len(response[i].text[k]) > 0
                        /\ response[i].text[k][1] = "Link to view: ") =>
                            response[i].text[k] = << "Link to view: " >> \o deepLink[i]

\* A bank transaction tool has returned a success text with the link to a
\* transaction that has an identifier and a bank account with an identifier.
C22_Witness ==
    \E i \in Invocations :
        /\ ToolTable[tool[i]].link = "bank" /\ pc[i] = "returned"
        /\ Truthy(envelope[i].result.id) /\ envelope[i].result.bankAccount = "id"
        /\ HasLine(i, "Link to view: ") /\ deepLink[i] # NoLink

\* The remote call an account handler makes for invocation i.
RemoteCallOf(i) ==
    IF tool[i] = "get-account" THEN "getAccount"
    ELSE IF Truthy(args[i].accountId) THEN "updateAccount" ELSE "createAccount"

\* C23: an account handler calls authenticate first and then makes at most one
\* remote call (createXeroAccount: updateAccount iff accountId is non-empty,
\* else createAccount); after a failed authenticate no remote call is made, no
\* call is repeated, and a failed call gives the error envelope.
C23_CallDiscipline ==
    \A i \in Invocations :
        /\ pc[i] = "entered" => log[i] = << >>
        /\ pc[i] = "authenticated" => log[i] = << "authenticate" >>
        /\ pc[i] = "settled" =>
              \/ log[i] = << "authenticate" >> /\ envelope[i] = ErrorEnvelope("authenticate failed")
              \/ log[i] = << "authenticate", RemoteCallOf(i) >>
                 /\ envelope[i].error # "authenticate failed"
        /\ \A auth \in {"ok", "throws"}, remote \in RemoteAccountOutcomes(EntityIdOf(i)) :
              LET r == AccountHandler(i, auth, remote)
              IN  /\ r.calls = IF auth = "throws" THEN << "authenticate" >>
                               ELSE << "authenticate", RemoteCallOf(i) >>
                  /\ (auth = "throws" \/ remote.kind = "throws") => r.envelope.isError

\* createXeroAccount has updated an account, and getXeroAccount has stopped
\* at a failed authenticate.
C23_Witness ==
    /\ tool[1] = "create-account" /\ pc[1] = "settled"
    /\ log[1] = << "authenticate", "updateAccount" >> /\ ~envelope[1].isError
    /\ tool[2] = "get-account" /\ pc[2] = "settled"
    /\ log[2] = << "authenticate" >> /\ envelope[2].isError

\* The results invocation i has pushed for upload calls.
UploadResults(i) == SelectSeq(attachmentResults[i], LAMBDA r : r.fileName # "unknown")

\* C24: an invocation has at most one upload call in flight, and has one only
\* while it is suspended on it; upload k is the upload of attachment k, and
\* result k is the result of upload k.
C24_SequentialUploads ==
    \A i \in Invocations :
        /\ InFlight(i) \in {0, 1}
        /\ InFlight(i) = 1 <=> pc[i] = "uploading"
        /\ Len(UploadsOf(i)) <= Len(processed[i])
        /\ \A k \in DOMAIN UploadsOf(i) :
              UploadsOf(i)[k].fileName = processed[i][k].fileName
        /\ \A k \in DOMAIN UploadResults(i) :
              /\ UploadResults(i)[k].fileName = UploadsOf(i)[k].fileName
              /\ UploadResults(i)[k].status =
                    IF UploadsOf(i)[k].threw THEN "failed" ELSE "success"

\* An invocation is suspended on the upload of its second attachment, the
\* result of the first being recorded, while the other invocation is
\* suspended on an upload of its own.
C24_Witness ==
    /\ pc[1] = "uploading" /\ Len(attachmentResults[1]) = 1 /\ Len(UploadsOf(1)) = 2
    /\ pc[2] = "uploading"

\* The names the attachments of invocation i are uploaded under.
OwnNames(i) ==
    {UploadName(args[i].attachments.items[k]) : k \in DOMAIN args[i].attachments.items}

\* C25: whatever the interleaving of two invocations, every upload call of an
\* invocation is for one of its own attachments against its own entity, its
\* results name only its own attachments, and its response text names neither
\* the entity nor an attachment of the other invocation.
C25_Independence ==
    \A i \in Invocations :
        LET other == CHOOSE j \in Invocations : j # i
        IN  /\ \A k \in DOMAIN UploadsOf(i) :
                  /\ UploadsOf(i)[k].resourceId = EntityIdOf(i)
                  /\ UploadsOf(i)[k].fileName \in OwnNames(i)
            /\ Len(UploadsOf(i)) <= Len(args[i].attachments.items)
            /\ \A k \in DOMAIN attachmentResults[i] :
                  attachmentResults[i][k].fileName \in OwnNames(i) \cup {"unknown"}
            /\ ~TextMentions(i, EntityIdOf(other))
            /\ \A name \in OwnNames(other) \ OwnNames(i) : ~TextMentions(i, name)

\* Both invocations have returned their text after their upload calls
\* alternated.
C25_Witness ==
    /\ pc[1] = "returned" /\ pc[2] = "returned"
    /\ Len(uploads) >= 3
    /\ uploads[1].invocation = 1 /\ uploads[2].invocation = 2 /\ uploads[3].invocation = 1
    /\ HasLine(1, "Attachments: ") /\ HasLine(2, "Attachments: ")

\* The indices up to n of the inputs with a filePath, in increasing order.
PathIndices(items, n) ==
    SelectSeq([k \in DOMAIN items |-> k], LAMBDA k : k <= n /\ Truthy(items[k].filePath))

\* C26: processAttachments returns the empty list without loading a file for
\* an absent or empty input; when every item normalizes it returns as many
\* elements as inputs, element k being the one made from input k; the items
\* are taken in input order, so that the files loaded are those of the by-path
\* inputs up to and including the first failing item, and none after it.
C26_OrderAndLength ==
    normOut.done =>
        LET r == normOut.result
            items == normIn.items
            failing == {k \in DOMAIN items : ~ProcessOne(items[k], fs).ok}
        IN  /\ (~normIn.present \/ Len(items) = 0) =>
                  r.ok /\ r.value = << >> /\ r.loads = << >>
            /\ failing = {} =>
                  /\ r.ok /\ Len(r.value) = Len(items)
                  /\ \A k \in DOMAIN items :
                        /\ r.value[k] = ProcessOne(items[k], fs).value
                        /\ r.value[k].fileName = UploadName(items[k])
                  /\ r.loads = PathIndices(items, Len(items))
            /\ failing # {} =>
                  /\ ~r.ok /\ r.value = << >>
                  /\ r.failedAt \in failing /\ \A k \in failing : r.failedAt <= k
                  /\ r.loads = PathIndices(items, r.failedAt)

\* processAttachments has failed on its first item, given inline without a
\* fileName, and has not loaded the file of its second item.
C26_Witness ==
    /\ normOut.done /\ ~normOut.result.ok
    /\ Len(normIn.items) = 2
    /\ ~Truthy(normIn.items[1].filePath)
    /\ normIn.items[2].filePath = "/docs/r.pdf"
    /\ normOut.result.failedAt = 1 /\ normOut.result.loads = << >>

\* C27: on a list whose items attachmentSchema accepts, processAttachments
\* fails neither with "Either filePath or base64Content must be provided" nor
\* with "fileName is required when using base64Content": when it fails, it is
\* on a by-path item, with the error of fileToBase64 for that item.
C27_SchemaNormalizerAgreement ==
    ( /\ normOut.done /\ ~normOut.result.ok
      /\ \A k \in DOMAIN normIn.items : attachmentSchema(normIn.items[k]) ) =>
        LET r == normOut.result
            x == normIn.items[r.failedAt]
        IN  /\ r.error # WrapError(<< "Either filePath or base64Content must be provided" >>)
            /\ r.error # WrapError(<< "fileName is required when using base64Content" >>)
            /\ Truthy(x.filePath)
            /\ ~fileToBase64(x.filePath, fs).ok
            /\ r.error = WrapError(fileToBase64(x.filePath, fs).error)

\* processAttachments has failed on a list the schema accepts: inline content
\* with its fileName, then a path at which there is no file.
C27_Witness ==
    /\ normOut.done /\ ~normOut.result.ok
    /\ Len(normIn.items) = 2
    /\ \A k \in DOMAIN normIn.items : attachmentSchema(normIn.items[k])
    /\ TruthyContent(normIn.items[1].base64Content) /\ ~Truthy(normIn.items[1].filePath)
    /\ normIn.items[2].filePath = "scan.PNG"
    /\ Includes(normOut.result.error, "File not found")

\* Input x carries both a filePath and inline content.
BothSources(x) == Truthy(x.filePath) /\ TruthyContent(x.base64Content)

\* C28: an input with both a non-empty filePath and base64Content is taken by
\* path: in a list that normalizes, its element holds the encoded bytes of the
\* file and not the inline content, with or without a fileName; when its file
\* does not load and the items before it pass, the list fails on it with the
\* error of the load.
C28_SourcePrecedence ==
    normOut.done =>
        \A k \in DOMAIN normIn.items :
            LET x == normIn.items[k]
                file == fileToBase64(x.filePath, fs)
            IN  BothSources(x) =>
                    /\ normOut.result.ok =>
                          /\ file.ok
                          /\ normOut.result.value[k].base64Content = file.value.base64Content
                          /\ normOut.result.value[k].base64Content # x.base64Content
                          /\ normOut.result.value[k].fileName = UploadName(x)
                          /\ k \in {normOut.result.loads[j] : j \in DOMAIN normOut.result.loads}
                    /\ (~file.ok /\ EarlierItemsPass(k)) =>
                          /\ ~normOut.result.ok
                          /\ normOut.result.failedAt = k
                          /\ normOut.result.error = WrapError(file.error)

\* processAttachments has normalized an input with both sources and no
\* fileName from its file.
C28_Witness ==
    /\ normOut.done /\ normOut.result.ok
    /\ Len(normIn.items) = 1
    /\ BothSources(normIn.items[1]) /\ normIn.items[1].fileName = Undefined
    /\ normOut.result.value[1].fileName = "r.pdf"

\* C29: a call of fileToBase64 that succeeds has read at most MAX_FILE_SIZE
\* bytes, whatever another process did to the file between stat and readFile.
C29_CeilingUnderReplacement ==
    (loadOut.done /\ loadOut.result.ok) => loadIn.file.size <= MAX_FILE_SIZE

\* C30: when the remote has no account for the requested ID, getXeroAccount
\* returns the error envelope "Account not found." and get-account returns the
\* text "Error retrieving account: Account not found."; get-account returns
\* the text "No account found with ID: ..." in no execution.
C30_MissingAccount ==
    \A i \in Invocations :
        tool[i] = "get-account" =>
            /\ \A remote \in RemoteAccountOutcomes(EntityIdOf(i)) :
                  remote.kind = "empty" =>
                      getXeroAccount(args[i].accountId, "ok", remote).envelope
                          = ErrorEnvelope("Account not found.")
            /\ ~HasLine(i, "No account found with ID: ")
            /\ (HandlerReturned(i) /\ envelope[i].error = "Account not found.") =>
                  /\ pc[i] = "returned"
                  /\ response[i] =
                        TextResponse(ErrorText("Error retrieving account: ",
                                               "Account not found."))
                  /\ response[i].text[1][1] = "Error retrieving account: "

\* get-account has returned its text for an ID the remote has no account for.
C30_Witness ==
    \E i \in Invocations :
        /\ tool[i] = "get-account" /\ pc[i] = "returned"
        /\ envelope[i] = ErrorEnvelope("Account not found.")
        /\ HasLine(i, "Error retrieving account: ")

====
